---- MODULE Spec2Model ----
(***************************************************************************)
(* Verification model of the Smart-Asset Allocator backend                 *)
(* (njllanos/smart-asset-allocator, backend/app).                          *)
(*                                                                         *)
(* The module holds one state machine per subsystem; each has its own      *)
(* specification and leaves the variables of the other subsystems idle:    *)
(*   SpecRouting   route registration and request dispatch                 *)
(*   SpecSchema    request-schema validation                               *)
(*   SpecMarket    market-data service and its two endpoints               *)
(*   SpecOptimize  POST /optimization/optimize and optimize_portfolio      *)
(*   SpecWeights   _optimize (solve, clean) and _build_allocations         *)
(* Numbers with a fractional part are scaled integers; the unit is stated  *)
(* where the number is introduced.                                         *)
(***************************************************************************)
EXTENDS Integers, Sequences, FiniteSets, TLC

VARIABLES
    \* ---- routing (api/v1/router.py, main.py) ----
    boot,         \* position in the import-time registration sequence
    api_routes,   \* routes held by api_router
    app_routes,   \* routes held by the FastAPI application
    req,          \* the HTTP request being routed, or NoReq
    resp,         \* handler the request was dispatched to, "404", "405", or "pending"
    \* ---- schema validation (models/schemas.py) ----
    vschema,      \* name of the request schema last validated, or "none"
    vraw,         \* the raw input: [tickers: list of raw strings, weights: list of (key, value) items]
    vresult,      \* [ok, tickers, weights]: outcome of the validation and the validated fields
    \* ---- market data (services/market_data_service.py, endpoints/market_data.py) ----
    mpc,          \* position of the market-data request
    mendpoint,    \* "get_market_data" (POST /market-data/) or "get_quick_stats"
    mtickers,     \* ticker list handed to MarketDataService.get_market_data
    mprices,      \* prices_df: [columns: tickers present, count: non-missing observations]
    merror,       \* the error get_market_data raised, or NoError
    mstatus,      \* HTTP status of the response, 0 while none
    \* ---- optimization (endpoints/optimization.py, services/optimization_service.py) ----
    opc,          \* position of the POST /optimization/optimize request
    orequest,     \* the validated OptimizationRequest
    onews_calls,  \* calls of news_service.get_news_for_tickers in this request
    osent_calls,  \* calls of sentiment_service.analyze_sentiment in this request
    osent_failed, \* code of the error the news/sentiment sub-pipeline raised, or "NONE"
    osentiment_results, \* the endpoint's sentiment_results: None or Some(tickers with a summary)
    osvc_called,  \* optimization_service.optimize_portfolio was invoked
    osvc_arg,     \* the sentiment_results argument it was invoked with
    ocause,       \* code of the failure raised inside optimize_portfolio, or "NONE"
    oerror,       \* the error that left optimize_portfolio, or OptNoError
    obl_params,   \* black_litterman_params is present
    osolver,      \* the EfficientFrontier method _optimize called, or "none"
    oresponse,    \* the OptimizationResponse, or NoResponse
    ostatus,      \* HTTP status of the response, 0 while none
    \* ---- weights (services/optimization_service.py: _optimize, _build_allocations) ----
    wpc,          \* position inside optimize_portfolio steps 5 and 6
    wtickers,     \* tickers, in the order of the weights dictionary
    wconstraints, \* [min_weight, max_weight]
    wsolved,      \* the solver's weights (ef.weights)
    wweights,     \* cleaned_weights, the weights map of the response
    wallocations, \* the allocation list of the response: records [ticker, weight]
    \* ---- news (services/news_service.py) ----
    npc,          \* position inside get_news_for_tickers
    ntickers,     \* the requested tickers
    nmax,         \* max_articles_per_ticker
    napi_key,     \* whether settings.NEWS_API_KEY is set
    ncache,       \* tickers whose company info is in CompanyInfoExtractor._cache
    nfetched,     \* the results of the _fetch_all_sources tasks, in ticker order
    nresults,     \* the returned map ticker -> article list
    nraised,      \* whether get_news_for_tickers raised
    \* ---- sentiment (services/sentiment_service.py: analyze_sentiment) ----
    spc,          \* position inside analyze_sentiment
    stickers,     \* the requested tickers
    snews,        \* news_by_ticker: ticker -> list of article titles
    smodel,       \* whether SentimentService._model is set
    sloaded_by,   \* whether this call ran the model load
    sall_scores,  \* all_scores, one per ticker processed so far
    sresults,     \* results: ticker -> TickerSentimentSummary
    sclassified,  \* positions of the tickers the classifier was invoked for
    sresponse,    \* the response: [code, market_sentiment_index]
    \* ---- value at risk (services/risk_service.py: _calculate_var) ----
    rpc,          \* position inside _calculate_var
    rsimulated,   \* simulated_values, the simulated terminal values in USD
    rconfidence,  \* confidence_level, in percent
    rvar,         \* the VaRResult: var_amount and expected_shortfall in cents
    \* ---- model loading (main.py: lifespan; sentiment_service.py: initialize_model) ----
    ldebug,       \* settings.DEBUG
    lmodel,       \* whether SentimentService._model is set (is not None)
    lpc,          \* position of the startup and of each request coroutine
    lrun,         \* state of the _load_model_sync run each caller awaits
    lloads,       \* number of _load_model_sync runs started so far
    \* ---- response cache (core/cache.py) ----
    cclock,       \* datetime.now(), in seconds
    ccache,       \* AsyncTTLChecker.cache: key -> stored result
    ctimestamps,  \* AsyncTTLChecker.timestamps: key -> time stored
    ccall,        \* per caller: the wrapper call in progress
    cinvocations, \* number of invocations of the wrapped operation so far
    \* ---- repeated get_market_data calls (services/market_data_service.py) ----
    gclock,       \* datetime.now(), in seconds
    gcalls,       \* the get_market_data calls made so far: [key, at, downloaded]
    gdownloads,   \* number of _download_prices calls so far
    \* ---- cache keys of two calls of one cached operation (core/cache.py) ----
    kpc,          \* "idle", "called", "built"
    kfunc,        \* the decorated operation: [name, is_method]
    kcalls,       \* the two calls: <<[args, kwargs], [args, kwargs]>>
    kkeys,        \* the key built for each of the two calls
    \* ---- GET /risk/var/quick (api/v1/endpoints/risk.py: quick_var) ----
    qpc,          \* "idle", "received", "rejected", "called", "failed"
    qtickers,     \* the tickers query values, as sent
    qweights,     \* the weights query values, in hundredths
    qweights_dict,\* weights_dict handed to RiskService.quick_var, in millionths
    qstatus,      \* HTTP status of the answer, 0 while there is none
    \* ---- POST /risk/analyze (api/v1/endpoints/risk.py: analyze_risk) ----
    analyze_pc,        \* "idle", "received", "computed", "answered", "failed"
    confidence_levels, \* request.confidence_levels, in percent
    var_results,       \* risk_metrics.var_results of the service's result
    analyze_status,    \* HTTP status of the answer, 0 while there is none
    \* ---- company info lookups (services/news_service.py: CompanyInfoExtractor) ----
    itickers,     \* the tickers of the get_news_for_tickers call
    ipc,          \* per caller: "idle", "waiting", "missed", "requested", "done"
    iticker,      \* per caller: the ticker of its get_company_info call
    icache,       \* CompanyInfoExtractor._cache: the tickers that have an entry
    irequests     \* per ticker: provider requests (yf.Ticker(ticker).info) so far

routeVars == <<boot, api_routes, app_routes, req, resp>>

NoReq == [method |-> "-", path |-> <<>>]

\* settings.API_V1_PREFIX = "/api/v1", as path segments
API_V1_PREFIX == <<"api", "v1">>

Route(m, p, e) == [method |-> m, path |-> p, endpoint |-> e]

\* endpoints/market_data.py: router prefix "/market-data" and its three routes
market_data_router ==
    { Route("POST", <<"market-data", "">>, "get_market_data"),
      Route("GET",  <<"market-data", "quick-stats">>, "get_quick_stats"),
      Route("GET",  <<"market-data", "validate-tickers">>, "validate_tickers") }

\* endpoints/sentiment.py: router prefix "/sentiment" and its four routes
sentiment_router ==
    { Route("POST", <<"sentiment", "analyze">>, "analyze_sentiment"),
      Route("GET",  <<"sentiment", "views", "{ticker}">>, "get_ticker_view"),
      Route("POST", <<"sentiment", "warmup">>, "warmup_model"),
      Route("GET",  <<"sentiment", "health">>, "sentiment_health") }

\* endpoints/optimization.py: router prefix "/optimization" and its four routes
optimization_router ==
    { Route("POST", <<"optimization", "optimize">>, "optimize_portfolio"),
      Route("POST", <<"optimization", "optimize", "no-sentiment">>, "optimize_without_sentiment"),
      Route("GET",  <<"optimization", "objectives">>, "list_objectives"),
      Route("POST", <<"optimization", "views", "from-sentiment">>, "generate_views_from_sentiment") }

\* endpoints/risk.py: router prefix "/risk" and its five routes
risk_router ==
    { Route("POST", <<"risk", "analyze">>, "analyze_risk"),
      Route("POST", <<"risk", "analyze-optimized">>, "analyze_optimized_portfolio_risk"),
      Route("GET",  <<"risk", "var", "quick">>, "quick_var"),
      Route("GET",  <<"risk", "stress-scenarios">>, "list_stress_scenarios"),
      Route("GET",  <<"risk", "metrics", "explanation">>, "explain_metrics") }

\* main.py: @app.get("/") and @app.get("/health")
root_routes ==
    { Route("GET", <<"">>, "root"),
      Route("GET", <<"health">>, "health_check") }

\* APIRouter.include_router / FastAPI.include_router: every route of the
\* included router is added under the given prefix
include_router(routes, router, prefix) ==
    routes \cup { [r EXCEPT !.path = prefix \o r.path] : r \in router }

\* the routers api/v1/router.py includes into api_router (lines 12-13; the
\* optimization and risk includes are commented out, lines 15-18)
ApiRouterIncludes == <<market_data_router, sentiment_router>>

\* a path segment written {name} in a route template matches any segment
IsParam(seg) == seg = "{ticker}"

PathMatches(template, path) ==
    /\ Len(template) = Len(path)
    /\ \A i \in 1..Len(path) : IsParam(template[i]) \/ template[i] = path[i]

\* Starlette routing: full match dispatches to the endpoint, a path that
\* matches under another method answers 405, no match answers 404
Dispatch(routes, r) ==
    LET full == { x \in routes : PathMatches(x.path, r.path) /\ x.method = r.method }
        part == { x \in routes : PathMatches(x.path, r.path) }
    IN  IF full # {} THEN (CHOOSE x \in full : TRUE).endpoint
        ELSE IF part # {} THEN "405"
        ELSE "404"

\* the routes of the four endpoint groups, whether registered or not
GroupRoutes == market_data_router \cup sentiment_router \cup optimization_router \cup risk_router

Concrete(path) == [i \in 1..Len(path) |-> IF IsParam(path[i]) THEN "AAPL" ELSE path[i]]

\* the requests a client may send: every group route and root route, with
\* and without the API prefix, under both methods
Requests ==
    { [method |-> m, path |-> p] :
        m \in {"GET", "POST"},
        p \in { API_V1_PREFIX \o Concrete(r.path) : r \in GroupRoutes }
              \cup { Concrete(r.path) : r \in GroupRoutes \cup root_routes } }

RouteStart ==
    /\ boot = "router_12"
    /\ api_routes = {}
    /\ app_routes = {}
    /\ req = NoReq
    /\ resp = "pending"

RouteIdle ==
    /\ boot = "idle"
    /\ api_routes = {}
    /\ app_routes = {}
    /\ req = NoReq
    /\ resp = "pending"

\* router.py:12  api_router.include_router(market_data.router)
RouterIncludeMarketData ==
    /\ boot = "router_12"
    /\ api_routes' = include_router(api_routes, ApiRouterIncludes[1], <<>>)
    /\ boot' = "router_13"
    /\ UNCHANGED <<app_routes, req, resp>>

\* router.py:13  api_router.include_router(sentiment.router)
RouterIncludeSentiment ==
    /\ boot = "router_13"
    /\ api_routes' = include_router(api_routes, ApiRouterIncludes[2], <<>>)
    /\ boot' = "main_158"
    /\ UNCHANGED <<app_routes, req, resp>>

\* main.py:158  app.include_router(api_router, prefix=settings.API_V1_PREFIX)
AppIncludeApiRouter ==
    /\ boot = "main_158"
    /\ app_routes' = include_router(app_routes, api_routes, API_V1_PREFIX)
    /\ boot' = "main_161"
    /\ UNCHANGED <<api_routes, req, resp>>

\* main.py:161-178  the root and health routes
AppAddRootRoutes ==
    /\ boot = "main_161"
    /\ app_routes' = include_router(app_routes, root_routes, <<>>)
    /\ boot' = "serving"
    /\ UNCHANGED <<api_routes, req, resp>>

\* a client request arrives at the running application
ReceiveRequest ==
    /\ boot = "serving"
    /\ resp # "pending" \/ req = NoReq
    /\ \E r \in Requests : req' = r
    /\ resp' = "pending"
    /\ UNCHANGED <<boot, api_routes, app_routes>>

\* the application routes the request
DispatchRequest ==
    /\ boot = "serving"
    /\ req # NoReq
    /\ resp = "pending"
    /\ resp' = Dispatch(app_routes, req)
    /\ UNCHANGED <<boot, api_routes, app_routes, req>>


(***************************************************************************)
(* Request schemas (models/schemas.py).  A string is a sequence of         *)
(* characters; a weight is an integer number of hundredths (50 = 0.50).    *)
(***************************************************************************)
schemaVars == <<vschema, vraw, vresult>>

\* longest raw ticker list the model submits
MaxTickers == 2
\* most entries of a raw weights dictionary
MaxWeightItems == 2

\* raw ticker strings a client may send: case variants and padded variants
RawTickerPool == { <<"A">>, <<"a">>, <<"a", " ">>, <<"M">>, <<" ", "m">> }

\* raw weight values, in hundredths
WeightValues == { -50, 50, 100, 150 }

UpperChar(c) == CASE c = "a" -> "A" [] c = "m" -> "M" [] OTHER -> c

\* str.upper()
upper(s) == [i \in 1..Len(s) |-> UpperChar(s[i])]

RECURSIVE lstrip(_)
lstrip(s) == IF s # <<>> /\ Head(s) = " " THEN lstrip(Tail(s)) ELSE s

RECURSIVE rstrip(_)
rstrip(s) == IF s # <<>> /\ s[Len(s)] = " " THEN rstrip(SubSeq(s, 1, Len(s) - 1)) ELSE s

\* str.strip()
strip(s) == rstrip(lstrip(s))

\* t.upper().strip()
NormalizeTicker(t) == strip(upper(t))

\* [t.upper().strip() for t in v]
NormalizeList(v) == [i \in 1..Len(v) |-> NormalizeTicker(v[i])]

SeqToSet(v) == { v[i] : i \in 1..Len(v) }

\* the lists Python may produce for list(s): the elements of s, each once,
\* in an order the language leaves unspecified
ListsOfSet(s) ==
    { l \in [1..Cardinality(s) -> s] : \A i, j \in 1..Cardinality(s) : l[i] = l[j] => i = j }

NoDuplicates(v) == \A i, j \in 1..Len(v) : v[i] = v[j] => i = j

\* Field(min_length=..., max_length=30) on a ticker list
MaxLenTickers == 30

LengthOk(v, minLen) == Len(v) >= minLen /\ Len(v) <= MaxLenTickers

\* a dictionary as the list of its items in insertion order
DictKeys(items) == { items[i][1] : i \in 1..Len(items) }

\* value of a key: the last item written under it
DictGet(items, k) ==
    items[CHOOSE i \in 1..Len(items) :
            /\ items[i][1] = k
            /\ \A j \in (i+1)..Len(items) : items[j][1] # k][2]

RECURSIVE SumSeq(_)
SumSeq(s) == IF s = <<>> THEN 0 ELSE Head(s) + SumSeq(Tail(s))

\* sum(weights.values()) of a dictionary given as a function
RECURSIVE SumDict(_, _)
SumDict(d, keys) ==
    IF keys = {} THEN 0
    ELSE LET k == CHOOSE x \in keys : TRUE IN d[k] + SumDict(d, keys \ {k})

\* {k.upper().strip(): v for k, v in self.weights.items()}: a later item
\* overwrites an earlier one with the same normalized key
NormalizeWeights(items) ==
    LET norm == [i \in 1..Len(items) |-> <<NormalizeTicker(items[i][1]), items[i][2]>>]
    IN  [k \in DictKeys(norm) |-> DictGet(norm, k)]

\* PortfolioWeights.validate_weights bounds on the sum, in hundredths
SumLo == 99
SumHi == 101

\* PortfolioWeights.validate_weights: sum within [0.99, 1.01], no negative
PortfolioWeights_validate_weights(d) ==
    /\ SumLo <= SumDict(d, DOMAIN d)
    /\ SumDict(d, DOMAIN d) <= SumHi
    /\ \A k \in DOMAIN d : ~(d[k] < 0)

Rejected == [ok |-> FALSE, tickers |-> <<>>, weights |-> <<>>]

Accepted(t, w) == [ok |-> TRUE, tickers |-> t, weights |-> w]

\* MarketDataRequest: tickers min_length=1, then validate_tickers
\* (list(set(...)), at least 2 distinct)
MarketDataRequest(raw) ==
    IF ~LengthOk(raw.tickers, 1) THEN { Rejected }
    ELSE LET normalized == SeqToSet(NormalizeList(raw.tickers))
         IN  IF Cardinality(normalized) < 2 THEN { Rejected }
             ELSE { Accepted(l, <<>>) : l \in ListsOfSet(normalized) }

\* OptimizationRequest: tickers min_length=2, then validate_tickers
OptimizationRequest(raw) ==
    IF ~LengthOk(raw.tickers, 2) THEN { Rejected }
    ELSE LET normalized == SeqToSet(NormalizeList(raw.tickers))
         IN  IF Cardinality(normalized) < 2 THEN { Rejected }
             ELSE { Accepted(l, <<>>) : l \in ListsOfSet(normalized) }

\* SentimentAnalysisRequest: tickers min_length=1, then normalize_tickers
SentimentAnalysisRequest(raw) ==
    IF ~LengthOk(raw.tickers, 1) THEN { Rejected }
    ELSE { Accepted(NormalizeList(raw.tickers), <<>>) }

\* RiskAnalysisRequest: tickers min_length=1, validate_tickers, then
\* validate_weights_match_tickers
RiskAnalysisRequest(raw) ==
    IF ~LengthOk(raw.tickers, 1) THEN { Rejected }
    ELSE LET tickers == NormalizeList(raw.tickers)
             weights == NormalizeWeights(raw.weights)
         IN  IF DOMAIN weights # SeqToSet(tickers) THEN { Rejected }
             ELSE { Accepted(tickers, weights) }

RECURSIVE SeqsUpTo(_, _)
SeqsUpTo(S, n) ==
    IF n = 0 THEN { <<>> }
    ELSE LET shorter == SeqsUpTo(S, n - 1)
         IN  shorter \cup { Append(q, x) : q \in shorter, x \in S }

\* raw ticker lists of at most MaxTickers entries
RawTickerLists == SeqsUpTo(RawTickerPool, MaxTickers)

\* raw weights dictionaries: items with pairwise distinct raw keys
RawWeightDicts ==
    { d \in SeqsUpTo(RawTickerPool \X WeightValues, MaxWeightItems) :
        \A i, j \in 1..Len(d) : d[i][1] = d[j][1] => i = j }

NoRaw == [tickers |-> <<>>, weights |-> <<>>]

SchemaInit ==
    /\ vschema = "none"
    /\ vraw = NoRaw
    /\ vresult = Rejected

SchemaIdle == SchemaInit

\* each behaviour validates one request: a schema is applied to a raw body
ValidateMarketDataRequest ==
    \E t \in RawTickerLists :
        /\ vschema = "none"
        /\ vschema' = "MarketDataRequest"
        /\ vraw' = [tickers |-> t, weights |-> <<>>]
        /\ vresult' \in MarketDataRequest(vraw')

ValidateOptimizationRequest ==
    \E t \in RawTickerLists :
        /\ vschema = "none"
        /\ vschema' = "OptimizationRequest"
        /\ vraw' = [tickers |-> t, weights |-> <<>>]
        /\ vresult' \in OptimizationRequest(vraw')

ValidateSentimentAnalysisRequest ==
    \E t \in RawTickerLists :
        /\ vschema = "none"
        /\ vschema' = "SentimentAnalysisRequest"
        /\ vraw' = [tickers |-> t, weights |-> <<>>]
        /\ vresult' \in SentimentAnalysisRequest(vraw')

ValidateRiskAnalysisRequest ==
    \E t \in RawTickerLists, w \in RawWeightDicts :
        /\ vschema = "none"
        /\ vschema' = "RiskAnalysisRequest"
        /\ vraw' = [tickers |-> t, weights |-> w]
        /\ vresult' \in RiskAnalysisRequest(vraw')

(***************************************************************************)
(* Market data: MarketDataService.get_market_data and the two endpoints    *)
(* that call it.  Tickers are the normalized symbols; prices_df is known   *)
(* by its columns and by the number of non-missing rows of each column.    *)
(***************************************************************************)
marketVars == <<mpc, mendpoint, mtickers, mprices, merror, mstatus>>

\* longest ticker list of a market-data request
MaxReqTickers == 3

Tickers == { "AAPL", "MSFT", "GOOG" }

\* numbers of non-missing observations a downloaded column may hold
ObsCounts == { 0, 244, 245, 300 }

\* _validate_data_sufficiency(min_days=245)
min_days == 245

NoError == [code |-> "NONE", ticker |-> <<>>, required_days |-> 0, available_days |-> 0]

\* core/exceptions.py: the domain errors of the market-data path
MarketDataException ==
    [code |-> "MARKET_DATA_ERROR", ticker |-> <<>>, required_days |-> 0, available_days |-> 0]

InvalidTickerException(ticker) ==
    [code |-> "INVALID_TICKER", ticker |-> ticker, required_days |-> 0, available_days |-> 0]

InsufficientDataException(ticker, required, available) ==
    [code |-> "INSUFFICIENT_DATA", ticker |-> <<ticker>>,
     required_days |-> required, available_days |-> available]

\* an exception that is not a SmartAllocatorException
OtherException ==
    [code |-> "NOT_A_DOMAIN_ERROR", ticker |-> <<>>, required_days |-> 0, available_days |-> 0]

NoPrices == [columns |-> {}, count |-> [t \in Tickers |-> 0]]

\* the data frames _download_prices may return: any set of columns, any
\* number of non-missing rows per column (0 for a column that is not there)
PriceFrames ==
    { f \in [columns : SUBSET Tickers, count : [Tickers -> ObsCounts]] :
        \A t \in Tickers : t \notin f.columns => f.count[t] = 0 }

\* the loop of _validate_data_sufficiency from position i on; invalid is
\* invalid_tickers so far.  ", ".join(invalid_tickers) is kept as the list.
RECURSIVE SufficiencyLoop(_, _, _, _, _)
SufficiencyLoop(prices_df, tickers, minDays, i, invalid) ==
    IF i > Len(tickers)
    THEN IF invalid # <<>> THEN InvalidTickerException(invalid) ELSE NoError
    ELSE IF tickers[i] \notin prices_df.columns
         THEN SufficiencyLoop(prices_df, tickers, minDays, i + 1, Append(invalid, tickers[i]))
         ELSE IF prices_df.count[tickers[i]] < minDays
              THEN InsufficientDataException(tickers[i], minDays, prices_df.count[tickers[i]])
              ELSE SufficiencyLoop(prices_df, tickers, minDays, i + 1, invalid)

\* the tickers of the list that are not columns, in request order
RECURSIVE AbsentTickers(_, _)
AbsentTickers(prices_df, tickers) ==
    IF tickers = <<>> THEN <<>>
    ELSE IF Head(tickers) \notin prices_df.columns
         THEN <<Head(tickers)>> \o AbsentTickers(prices_df, Tail(tickers))
         ELSE AbsentTickers(prices_df, Tail(tickers))

\* variant: absent tickers are reported before any thin ticker is looked at
ValidateAbsentFirst(prices_df, tickers, minDays) ==
    IF AbsentTickers(prices_df, tickers) # <<>>
    THEN InvalidTickerException(AbsentTickers(prices_df, tickers))
    ELSE SufficiencyLoop(prices_df, tickers, minDays, 1, <<>>)

\* MarketDataService._validate_data_sufficiency: the error it raises, or NoError
validate_data_sufficiency(prices_df, tickers, minDays) ==
    SufficiencyLoop(prices_df, tickers, minDays, 1, <<>>)

\* endpoints/market_data.py get_market_data: the except clauses, in order;
\* anything else reaches main.py's global_exception_handler (500)
PostMarketDataStatus(e) ==
    IF e.code = "INVALID_TICKER" THEN 400
    ELSE IF e.code = "INSUFFICIENT_DATA" THEN 422
    ELSE IF e.code = "MARKET_DATA_ERROR" THEN 502
    ELSE IF e.code = "NONE" THEN 200
    ELSE 500

\* endpoints/market_data.py get_quick_stats: except Exception -> 500
QuickStatsStatus(e) ==
    IF e.code = "NONE" THEN 200 ELSE 500

\* ticker lists the two endpoints hand to the service: POST / passes the
\* list validated by MarketDataRequest (distinct, at least 2), quick-stats
\* passes [t.upper().strip() for t in tickers] (at least 1, duplicates kept)
TickerLists(endpoint) ==
    { l \in SeqsUpTo(Tickers, MaxReqTickers) :
        IF endpoint = "get_market_data"
        THEN Len(l) >= 2 /\ NoDuplicates(l)
        ELSE Len(l) >= 1 }

MarketInit ==
    /\ mpc = "idle"
    /\ mendpoint = "none"
    /\ mtickers = <<>>
    /\ mprices = NoPrices
    /\ merror = NoError
    /\ mstatus = 0

MarketIdle == MarketInit

\* a request reaches one of the two endpoints; the handler calls
\* service.get_market_data(tickers, timeframe)
MarketRequest ==
    /\ mpc = "idle"
    /\ \E e \in {"get_market_data", "get_quick_stats"} :
        /\ mendpoint' = e
        /\ mtickers' \in TickerLists(e)
    /\ mpc' = "download"
    /\ UNCHANGED <<mprices, merror, mstatus>>

\* get_market_data lines 66-70: _download_prices returns a frame ...
DownloadPrices ==
    /\ mpc = "download"
    /\ mprices' \in PriceFrames
    /\ mpc' = "validate"
    /\ UNCHANGED <<mendpoint, mtickers, merror, mstatus>>

\* ... or raises (provider error, empty frame): wrapped in MarketDataException
DownloadFails ==
    /\ mpc = "download"
    /\ merror' = MarketDataException
    /\ mpc' = "respond"
    /\ UNCHANGED <<mendpoint, mtickers, mprices, mstatus>>

\* get_market_data line 73: self._validate_data_sufficiency(prices_df, tickers)
ValidateSufficiency ==
    /\ mpc = "validate"
    /\ merror' = validate_data_sufficiency(mprices, mtickers, min_days)
    /\ mpc' = IF merror'.code = "NONE" THEN "compute" ELSE "respond"
    /\ UNCHANGED <<mendpoint, mtickers, mprices, mstatus>>

\* get_market_data lines 75-107: returns, statistics and the response
ComputeStatistics ==
    /\ mpc = "compute"
    /\ mpc' = "respond"
    /\ UNCHANGED <<mendpoint, mtickers, mprices, merror, mstatus>>

\* the numeric code raises something that is not a domain error
ComputeFails ==
    /\ mpc = "compute"
    /\ merror' = OtherException
    /\ mpc' = "respond"
    /\ UNCHANGED <<mendpoint, mtickers, mprices, mstatus>>

\* the endpoint turns the outcome into the HTTP response
MarketRespond ==
    /\ mpc = "respond"
    /\ mstatus' = IF mendpoint = "get_market_data"
                  THEN PostMarketDataStatus(merror)
                  ELSE QuickStatsStatus(merror)
    /\ mpc' = "done"
    /\ UNCHANGED <<mendpoint, mtickers, mprices, merror>>

(***************************************************************************)
(* Optimization: the POST /optimization/optimize handler and               *)
(* OptimizationService.optimize_portfolio.  An Optional value is a         *)
(* sequence: <<>> is None, <<x>> is the value x.  Target return and        *)
(* target volatility are in percent (10 = 0.10).                           *)
(***************************************************************************)
optVars == <<opc, orequest, onews_calls, osent_calls, osent_failed, osentiment_results,
             osvc_called, osvc_arg, ocause, oerror, obl_params, osolver, oresponse, ostatus>>

None == <<>>

Some(x) == <<x>>

\* Python truth value of an Optional[float]: None and 0.0 are false
TruthyNumber(opt) == opt # None /\ opt[1] # 0

\* Python truth value of an Optional list: None and [] are false
TruthyList(opt) == opt # None /\ opt[1] # <<>>

\* Python truth value of an Optional dict (known by its key set): None and {} are false
TruthyDict(opt) == opt # None /\ opt[1] # {}

\* validated ticker lists of an OptimizationRequest (distinct, at least 2)
OptTickerLists == { <<"AAPL", "MSFT">>, <<"GOOG", "AAPL", "MSFT">> }

\* objective is a free string: the four documented values and another one
Objectives == { "max_sharpe", "min_volatility", "efficient_return", "efficient_risk", "max_return" }

\* target_return / target_volatility: absent, zero, or a positive value
Targets == { None, Some(0), Some(10) }

\* manual views, by the ticker of each view: absent, an empty list, a view
\* on a requested ticker, a view on a ticker that was not requested
ManualViews == { None, Some(<<>>), Some(<<"AAPL">>), Some(<<"TSLA">>) }

OptimizationRequests ==
    [tickers : OptTickerLists, objective : Objectives, use_sentiment : BOOLEAN,
     views : ManualViews, target_return : Targets, target_volatility : Targets]

NoRequest ==
    [tickers |-> <<>>, objective |-> "", use_sentiment |-> FALSE,
     views |-> None, target_return |-> None, target_volatility |-> None]

OptNoError == [code |-> "NONE", tickers |-> <<>>, objective |-> ""]

\* raise OptimizationException(message, details={"tickers", "objective"})
OptimizationException(request) ==
    [code |-> "OPTIMIZATION_ERROR", tickers |-> request.tickers, objective |-> request.objective]

NoResponse ==
    [present |-> FALSE, objective_used |-> "", sentiment_views_used |-> FALSE,
     black_litterman_params |-> FALSE]

\* variant: the flag is not consulted
NeedsSentimentWhenNoViews(request) == ~TruthyList(request.views)

\* endpoint line 76: if request.use_sentiment and not request.views
NeedsSentiment(request) == request.use_sentiment /\ ~TruthyList(request.views)

\* errors the news fetch and the sentiment analysis may raise
NewsErrors == { "NEWS_API_ERROR", "NOT_A_DOMAIN_ERROR" }
SentimentErrors == { "SENTIMENT_ERROR", "NOT_A_DOMAIN_ERROR" }

\* variant: only news errors are caught
CaughtOnlyNewsErrors(e) == e = "NEWS_API_ERROR"

\* endpoint line 95: except Exception catches every failure of the sub-pipeline
CaughtBySentimentGuard(e) == TRUE

\* main.py exception handlers: a domain error answers 400, any other 500
GlobalHandlerStatus(e) == IF e = "NOT_A_DOMAIN_ERROR" THEN 500 ELSE 400

\* _prepare_views: the tickers that get a view
prepare_views(request, sentiment_results) ==
    IF TruthyList(request.views)
    THEN { request.views[1][i] : i \in 1..Len(request.views[1]) } \cap SeqToSet(request.tickers)
    ELSE IF request.use_sentiment /\ TruthyDict(sentiment_results)
         THEN sentiment_results[1] \cap SeqToSet(request.tickers)
         ELSE {}

\* _optimize lines 295-304: the EfficientFrontier method called
SolverFor(objective, target_return, target_volatility) ==
    IF objective = "max_sharpe" THEN "max_sharpe"
    ELSE IF objective = "min_volatility" THEN "min_volatility"
    ELSE IF objective = "efficient_return" /\ TruthyNumber(target_return) THEN "efficient_return"
    ELSE IF objective = "efficient_risk" /\ TruthyNumber(target_volatility) THEN "efficient_risk"
    ELSE "max_sharpe"

\* optimize_portfolio lines 135-140: except Exception -> OptimizationException
RaisedByOptimizePortfolio(cause, request) == OptimizationException(request)

\* optimize_portfolio line 130
sentiment_views_used(request, sentiment_results) ==
    request.use_sentiment /\ sentiment_results # None

OptInit ==
    /\ opc = "idle"
    /\ orequest = NoRequest
    /\ onews_calls = 0
    /\ osent_calls = 0
    /\ osent_failed = "NONE"
    /\ osentiment_results = None
    /\ osvc_called = FALSE
    /\ osvc_arg = None
    /\ ocause = "NONE"
    /\ oerror = OptNoError
    /\ obl_params = FALSE
    /\ osolver = "none"
    /\ oresponse = NoResponse
    /\ ostatus = 0

OptIdle == OptInit

\* endpoint lines 63-76: the handler starts with sentiment_results = None
\* and decides whether to run the news/sentiment sub-pipeline
OptimizeRequest ==
    /\ opc = "idle"
    /\ orequest' \in OptimizationRequests
    /\ opc' = IF NeedsSentiment(orequest') THEN "news" ELSE "service"
    /\ UNCHANGED <<onews_calls, osent_calls, osent_failed, osentiment_results, osvc_called,
                   osvc_arg, ocause, oerror, obl_params, osolver, oresponse, ostatus>>

\* endpoint lines 81-84: news_service.get_news_for_tickers returns
FetchNews ==
    /\ opc = "news"
    /\ onews_calls' = onews_calls + 1
    /\ opc' = "sentiment"
    /\ UNCHANGED <<orequest, osent_calls, osent_failed, osentiment_results, osvc_called,
                   osvc_arg, ocause, oerror, obl_params, osolver, oresponse, ostatus>>

\* the failure e of the sub-pipeline meets the except clause of line 95:
\* caught, the handler goes on with sentiment_results = None; not caught,
\* it leaves the handler and the application's handlers answer
SubPipelineFailure(e) ==
    /\ osent_failed' = e
    /\ osentiment_results' = None
    /\ IF CaughtBySentimentGuard(e)
       THEN opc' = "service" /\ ostatus' = ostatus
       ELSE opc' = "done" /\ ostatus' = GlobalHandlerStatus(e)

\* endpoint lines 81-84 raise
FetchNewsFails ==
    /\ opc = "news"
    /\ onews_calls' = onews_calls + 1
    /\ \E e \in NewsErrors : SubPipelineFailure(e)
    /\ UNCHANGED <<orequest, osent_calls, osvc_called, osvc_arg, ocause, oerror,
                   obl_params, osolver, oresponse>>

\* endpoint lines 87-92: analyze_sentiment returns one summary per ticker
AnalyzeSentiment ==
    /\ opc = "sentiment"
    /\ osent_calls' = osent_calls + 1
    /\ osentiment_results' = Some(SeqToSet(orequest.tickers))
    /\ opc' = "service"
    /\ UNCHANGED <<orequest, onews_calls, osent_failed, osvc_called, osvc_arg, ocause,
                   oerror, obl_params, osolver, oresponse, ostatus>>

\* endpoint lines 87-90 raise (model load or inference)
AnalyzeSentimentFails ==
    /\ opc = "sentiment"
    /\ osent_calls' = osent_calls + 1
    /\ \E e \in SentimentErrors : SubPipelineFailure(e)
    /\ UNCHANGED <<orequest, onews_calls, osvc_called, osvc_arg, ocause, oerror,
                   obl_params, osolver, oresponse>>

\* endpoint lines 101-104: optimization_service.optimize_portfolio is called
CallOptimizePortfolio ==
    /\ opc = "service"
    /\ osvc_called' = TRUE
    /\ osvc_arg' = osentiment_results
    /\ opc' = "prices"
    /\ UNCHANGED <<orequest, onews_calls, osent_calls, osent_failed, osentiment_results,
                   ocause, oerror, obl_params, osolver, oresponse, ostatus>>

\* a failure inside the try block of optimize_portfolio leaves the service
\* as the error of lines 135-140
ServiceFailure(cause) ==
    /\ ocause' = cause
    /\ oerror' = RaisedByOptimizePortfolio(cause, orequest)
    /\ opc' = "respond"

\* service line 71, _get_prices: get_market_data validates the frame, then
\* the prices are downloaded once more
GetPrices ==
    /\ opc = "prices"
    /\ \E f \in PriceFrames :
         validate_data_sufficiency(f, orequest.tickers, min_days).code = "NONE"
    /\ opc' = "views"
    /\ UNCHANGED <<orequest, onews_calls, osent_calls, osent_failed, osentiment_results,
                   osvc_called, osvc_arg, ocause, oerror, obl_params, osolver, oresponse, ostatus>>

\* service line 71 raises: a domain error of get_market_data, or whatever
\* the second download raises
GetPricesFails ==
    /\ opc = "prices"
    /\ \/ \E f \in PriceFrames :
            /\ validate_data_sufficiency(f, orequest.tickers, min_days).code # "NONE"
            /\ ServiceFailure(validate_data_sufficiency(f, orequest.tickers, min_days).code)
       \/ ServiceFailure(MarketDataException.code)
       \/ ServiceFailure(OtherException.code)
    /\ UNCHANGED <<orequest, onews_calls, osent_calls, osent_failed, osentiment_results,
                   osvc_called, osvc_arg, obl_params, osolver, oresponse, ostatus>>

\* service lines 81-101: views, then Black-Litterman when there are views;
\* the model either yields posterior returns and its parameters or fails,
\* and a failure falls back to the historical returns
PrepareViews ==
    /\ opc = "views"
    /\ IF prepare_views(orequest, osvc_arg) # {}
       THEN obl_params' \in BOOLEAN
       ELSE obl_params' = FALSE
    /\ opc' = "solve"
    /\ UNCHANGED <<orequest, onews_calls, osent_calls, osent_failed, osentiment_results,
                   osvc_called, osvc_arg, ocause, oerror, osolver, oresponse, ostatus>>

\* service lines 104-133: _optimize dispatches on the objective, the solver
\* succeeds and the response is built
Optimize ==
    /\ opc = "solve"
    /\ osolver' = SolverFor(orequest.objective, orequest.target_return, orequest.target_volatility)
    /\ oresponse' = [present |-> TRUE,
                     objective_used |-> orequest.objective,
                     sentiment_views_used |-> sentiment_views_used(orequest, osvc_arg),
                     black_litterman_params |-> obl_params]
    /\ opc' = "respond"
    /\ UNCHANGED <<orequest, onews_calls, osent_calls, osent_failed, osentiment_results,
                   osvc_called, osvc_arg, ocause, oerror, obl_params, ostatus>>

\* the solver raises (infeasible target or bounds)
OptimizeFails ==
    /\ opc = "solve"
    /\ osolver' = SolverFor(orequest.objective, orequest.target_return, orequest.target_volatility)
    /\ ServiceFailure(OtherException.code)
    /\ UNCHANGED <<orequest, onews_calls, osent_calls, osent_failed, osentiment_results,
                   osvc_called, osvc_arg, obl_params, oresponse, ostatus>>

\* endpoint lines 112-123: the result is returned, a domain error becomes
\* HTTPException(400)
OptimizeRespond ==
    /\ opc = "respond"
    /\ ostatus' = IF oerror.code = "NONE" THEN 200 ELSE 400
    /\ opc' = "done"
    /\ UNCHANGED <<orequest, onews_calls, osent_calls, osent_failed, osentiment_results,
                   osvc_called, osvc_arg, ocause, oerror, obl_params, osolver, oresponse>>

(***************************************************************************)
(* Weights: _optimize (solve under the weight bounds, clean) and           *)
(* _build_allocations.  A weight is an integer number of millionths        *)
(* (1000000 = 1.0), fine enough for the 5- and 4-decimal roundings.        *)
(***************************************************************************)
weightVars == <<wpc, wtickers, wconstraints, wsolved, wweights, wallocations>>

\* 1.0 in millionths
WeightOne == 1000000

\* ef.clean_weights(cutoff=0.01), in millionths
clean_cutoff == 10000

\* _build_allocations: if weight > 0.001, in millionths
allocation_threshold == 1000

\* weights the solver may return for one asset, in millionths
SolverGrid ==
    { 0, 5000, 10000, 333331, 333334, 333335, 490000, 495000, 500000,
      666665, 666666, 990000, 995000, 1000000 }

\* min_weight and max_weight of the requests, in millionths
MinWeights == { 0, 5000, 333331 }
MaxWeights == { 333335, 500000, 1000000 }

\* OptimizationConstraints.validate_weights: min_weight <= max_weight
OptimizationConstraints ==
    { c \in [min_weight : MinWeights, max_weight : MaxWeights] : c.min_weight <= c.max_weight }

\* round to a multiple of step, ties to the even multiple (Python round, numpy.round)
RoundTo(x, step) ==
    LET q == x \div step
        r == x % step
    IN  IF 2 * r < step THEN q * step
        ELSE IF 2 * r > step THEN (q + 1) * step
        ELSE IF q % 2 = 0 THEN q * step ELSE (q + 1) * step

\* 5 decimals and 4 decimals, in millionths
Round5(x) == RoundTo(x, 10)
Round4(x) == RoundTo(x, 100)

\* the weight vectors EfficientFrontier may return: each weight within
\* weight_bounds, all weights summing to 1
RECURSIVE SumWeights(_, _)
SumWeights(w, ts) ==
    IF ts = <<>> THEN 0 ELSE w[Head(ts)] + SumWeights(w, Tail(ts))

Feasible(tickers, constraints) ==
    { w \in [SeqToSet(tickers) -> SolverGrid] :
        /\ \A t \in SeqToSet(tickers) :
             constraints.min_weight <= w[t] /\ w[t] <= constraints.max_weight
        /\ SumWeights(w, tickers) = WeightOne }

\* ef.clean_weights(cutoff): weights below the cutoff become 0, the rest
\* is rounded to 5 decimals
clean_weights(w, cutoff) ==
    [t \in DOMAIN w |-> IF w[t] < cutoff THEN 0 ELSE Round5(w[t])]

\* list.sort(key=weight, reverse=True), stable: x goes after the entries
\* that are not lighter
RECURSIVE InsertDescending(_, _)
InsertDescending(sorted, x) ==
    IF sorted = <<>> THEN <<x>>
    ELSE IF Head(sorted).weight >= x.weight
         THEN <<Head(sorted)>> \o InsertDescending(Tail(sorted), x)
         ELSE <<x>> \o sorted

RECURSIVE SortDescending(_)
SortDescending(l) ==
    IF l = <<>> THEN <<>>
    ELSE InsertDescending(SortDescending(SubSeq(l, 1, Len(l) - 1)), l[Len(l)])

\* the loop of _build_allocations: one record per weight above the threshold
RECURSIVE AllocationRecords(_, _, _)
AllocationRecords(weights, tickers, threshold) ==
    IF tickers = <<>> THEN <<>>
    ELSE IF weights[Head(tickers)] > threshold
         THEN <<[ticker |-> Head(tickers), weight |-> Round4(weights[Head(tickers)])]>>
              \o AllocationRecords(weights, Tail(tickers), threshold)
         ELSE AllocationRecords(weights, Tail(tickers), threshold)

\* _build_allocations: the records, sorted by weight with reverse=True
build_allocations(weights, tickers, threshold) ==
    SortDescending(AllocationRecords(weights, tickers, threshold))

NoWeights == [t \in {} |-> 0]

WeightsInit ==
    /\ wpc = "idle"
    /\ wtickers = <<>>
    /\ wconstraints = [min_weight |-> 0, max_weight |-> WeightOne]
    /\ wsolved = NoWeights
    /\ wweights = NoWeights
    /\ wallocations = <<>>

WeightsIdle == WeightsInit

\* optimize_portfolio reaches step 5 with the request's tickers and constraints
EnterOptimize ==
    /\ wpc = "idle"
    /\ wtickers' \in OptTickerLists
    /\ wconstraints' \in OptimizationConstraints
    /\ wpc' = "solve"
    /\ UNCHANGED <<wsolved, wweights, wallocations>>

\* _optimize lines 289-304: the solver returns weights within the bounds
Solve ==
    /\ wpc = "solve"
    /\ wsolved' \in Feasible(wtickers, wconstraints)
    /\ wpc' = "clean"
    /\ UNCHANGED <<wtickers, wconstraints, wweights, wallocations>>

\* the solver raises: no weight vector satisfies the bounds
SolveFails ==
    /\ wpc = "solve"
    /\ WeightOne < Len(wtickers) * wconstraints.min_weight
         \/ Len(wtickers) * wconstraints.max_weight < WeightOne
    /\ wpc' = "failed"
    /\ UNCHANGED <<wtickers, wconstraints, wsolved, wweights, wallocations>>

\* _optimize line 306: cleaned_weights = ef.clean_weights(cutoff=0.01)
CleanWeights ==
    /\ wpc = "clean"
    /\ wweights' = clean_weights(wsolved, clean_cutoff)
    /\ wpc' = "allocations"
    /\ UNCHANGED <<wtickers, wconstraints, wsolved, wallocations>>

\* optimize_portfolio line 115: allocations = self._build_allocations(weights, posterior_mu)
BuildAllocations ==
    /\ wpc = "allocations"
    /\ wallocations' = build_allocations(wweights, wtickers, allocation_threshold)
    /\ wpc' = "done"
    /\ UNCHANGED <<wtickers, wconstraints, wsolved, wweights>>

(***************************************************************************)
(* News: NewsService.get_news_for_tickers, _fetch_all_sources,             *)
(* _get_fallback_news and CompanyInfoExtractor.get_company_info.  An       *)
(* article is a record [title, published_at, synthetic]; times are in      *)
(* hours.                                                                  *)
(***************************************************************************)
newsVars == <<npc, ntickers, nmax, napi_key, ncache, nfetched, nresults, nraised>>

\* NewsService.MIN_ARTICLES_FOR_CONFIDENCE
MIN_ARTICLES_FOR_CONFIDENCE == 10

\* len(templates) in _get_fallback_news
TemplateCount == 12

\* datetime.now() during the request, in hours
NewsNow == 1000

\* the ticker lists and max_articles_per_ticker values of the requests
NewsTickerLists == { <<"AAA">>, <<"AAA", "BBB">>, <<"BBB", "BBB">> }
NewsMaxArticles == { 5, 10, 25 }

\* publish time of the real article with the given title, newest first in no
\* particular title order
PublishedAt(title) == NewsNow - 5 * ((title * 7) % 13) - 1 - (title \div 100)

RealArticle(title) ==
    [title |-> title, published_at |-> PublishedAt(title), synthetic |-> FALSE]

RECURSIVE RealArticles(_)
RealArticles(titles) ==
    IF titles = <<>> THEN <<>>
    ELSE <<RealArticle(Head(titles))>> \o RealArticles(Tail(titles))

Take(l, n) == SubSeq(l, 1, IF n < Len(l) THEN n ELSE Len(l))

\* get_company_info: "real" once yfinance answered (then cached), "fallback"
\* from _create_fallback_info, which is not cached
Keywords(info) == IF info = "real" THEN 3 ELSE 2

\* what each source has for a ticker: titles 104 and 4 differ in case and
\* punctuation only
YahooTitles == <<1, 2, 3, 4>>
GoogleTitles(k) ==
    IF k = 1 THEN <<104, 5, 6>> ELSE IF k = 2 THEN <<6, 7, 8, 9>> ELSE <<9, 10, 11>>
NewsApiTitles == <<11, 12, 13, 1, 2>>

\* _fetch_all_sources lines 321-332: the tasks handed to asyncio.gather
SourceTasks(info, api_key, max_articles) ==
    <<RealArticles(YahooTitles)>>
    \o [k \in 1..(IF Keywords(info) < 3 THEN Keywords(info) ELSE 3) |-> RealArticles(GoogleTitles(k))]
    \o (IF api_key THEN <<Take(RealArticles(NewsApiTitles), max_articles \div 2)>> ELSE <<>>)

SourceOutcomes == {"exception", "empty", "ok"}

\* lines 334-338: results that are exceptions or empty are skipped
RECURSIVE CollectSources(_, _)
CollectSources(tasks, outcomes) ==
    IF tasks = <<>> THEN <<>>
    ELSE (IF Head(outcomes) = "ok" THEN Head(tasks) ELSE <<>>)
         \o CollectSources(Tail(tasks), Tail(outcomes))

\* _deduplicate_articles: lower case, punctuation removed
TitleKey(title) == title % 100

RECURSIVE Deduplicate(_, _)
Deduplicate(articles, seen) ==
    IF articles = <<>> THEN <<>>
    ELSE IF TitleKey(Head(articles).title) \in seen
         THEN Deduplicate(Tail(articles), seen)
         ELSE <<Head(articles)>>
              \o Deduplicate(Tail(articles), seen \cup {TitleKey(Head(articles).title)})

deduplicate_articles(articles) == Deduplicate(articles, {})

\* list.sort(key=published_at, reverse=True), stable
RECURSIVE InsertNewestFirst(_, _)
InsertNewestFirst(sorted, x) ==
    IF sorted = <<>> THEN <<x>>
    ELSE IF Head(sorted).published_at >= x.published_at
         THEN <<Head(sorted)>> \o InsertNewestFirst(Tail(sorted), x)
         ELSE <<x>> \o sorted

RECURSIVE SortNewestFirst(_)
SortNewestFirst(l) ==
    IF l = <<>> THEN <<>>
    ELSE InsertNewestFirst(SortNewestFirst(SubSeq(l, 1, Len(l) - 1)), l[Len(l)])

\* _fetch_all_sources, when nothing raises outside the gathered tasks
fetch_all_sources(info, api_key, max_articles, outcomes) ==
    Take(SortNewestFirst(deduplicate_articles(
             CollectSources(SourceTasks(info, api_key, max_articles), outcomes))),
         max_articles)

\* int(md5(ticker)[:8], 16), a fixed number per ticker
Seed(ticker) == IF ticker = "AAA" THEN 5 ELSE 10

\* _get_fallback_news: min(count, 12) template headlines, the i-th dated
\* now - 3 i hours
get_fallback_news(ticker, count) ==
    [j \in 1..(IF count < TemplateCount THEN count ELSE TemplateCount) |->
        [title |-> 1000 + ((Seed(ticker) + (j - 1)) % TemplateCount),
         published_at |-> NewsNow - 3 * (j - 1),
         synthetic |-> TRUE]]

\* a coroutine's result as asyncio.gather sees it
Returned(articles) == [exc |-> FALSE, articles |-> articles]
Raised == [exc |-> TRUE, articles |-> <<>>]

\* variant: gather without return_exceptions, the first exception propagates
GatherPropagating(results) ==
    [raised |-> \E i \in 1..Len(results) : results[i].exc, values |-> results]

\* line 267: asyncio.gather(*tasks, return_exceptions=True) hands the
\* exceptions back as values
gather_ticker_results(results) ==
    [raised |-> FALSE, values |-> results]

\* lines 269-282: the entry of one ticker
TickerEntry(ticker, result, max_articles) ==
    IF result.exc
    THEN get_fallback_news(ticker, max_articles)
    ELSE IF Len(result.articles) < MIN_ARTICLES_FOR_CONFIDENCE
         THEN Take(result.articles
                   \o get_fallback_news(ticker,
                          (MIN_ARTICLES_FOR_CONFIDENCE - Len(result.articles)) + 3),
                   max_articles)
         ELSE Take(result.articles, max_articles)

\* the position of the last task of a ticker: a later assignment to
\* results[ticker] replaces an earlier one
LastIndexOf(ticker, tickers) ==
    CHOOSE i \in 1..Len(tickers) :
        /\ tickers[i] = ticker
        /\ \A j \in (i + 1)..Len(tickers) : tickers[j] # ticker

NoArticles == [t \in {} |-> <<>>]

NewsInit ==
    /\ npc = "idle"
    /\ ntickers = <<>>
    /\ nmax = 0
    /\ napi_key = FALSE
    /\ ncache = {}
    /\ nfetched = <<>>
    /\ nresults = NoArticles
    /\ nraised = FALSE

NewsIdle == NewsInit

\* get_news_for_tickers is called; the extractor's cache holds what earlier
\* requests left in it
NewsRequest ==
    /\ npc = "idle"
    /\ ntickers' \in NewsTickerLists
    /\ nmax' \in NewsMaxArticles
    /\ napi_key' \in BOOLEAN
    /\ ncache' \in SUBSET {"AAA"}
    /\ npc' = "preload"
    /\ UNCHANGED <<nfetched, nresults, nraised>>

\* _preload_company_info: a lookup that fails is answered with the fallback
\* info inside get_company_info and leaves the cache alone
PreloadCompanyInfo ==
    /\ npc = "preload"
    /\ \E ok \in SUBSET SeqToSet(ntickers) : ncache' = ncache \cup ok
    /\ npc' = "fetch"
    /\ UNCHANGED <<ntickers, nmax, napi_key, nfetched, nresults, nraised>>

\* _fetch_all_sources for the next ticker: every source task succeeds,
\* comes back empty or raises
FetchAllSources ==
    /\ npc = "fetch"
    /\ Len(nfetched) < Len(ntickers)
    /\ LET ticker == ntickers[Len(nfetched) + 1] IN
       \E info \in (IF ticker \in ncache THEN {"real"} ELSE {"real", "fallback"}) :
       \E outcomes \in [1..Len(SourceTasks(info, napi_key, nmax)) -> SourceOutcomes] :
          /\ ncache' = IF info = "real" THEN ncache \cup {ticker} ELSE ncache
          /\ nfetched' = Append(nfetched,
                 Returned(fetch_all_sources(info, napi_key, nmax, outcomes)))
    /\ UNCHANGED <<npc, ntickers, nmax, napi_key, nresults, nraised>>

\* _fetch_all_sources raises outside the gathered source tasks
FetchAllSourcesRaises ==
    /\ npc = "fetch"
    /\ Len(nfetched) < Len(ntickers)
    /\ nfetched' = Append(nfetched, Raised)
    /\ UNCHANGED <<npc, ntickers, nmax, napi_key, ncache, nresults, nraised>>

\* lines 267-290: gather the ticker tasks and build the result map
AssembleNews ==
    /\ npc = "fetch"
    /\ Len(nfetched) = Len(ntickers)
    /\ LET g == gather_ticker_results(nfetched) IN
       IF g.raised
       THEN /\ nraised' = TRUE
            /\ npc' = "raised"
            /\ UNCHANGED <<nresults, ncache>>
       ELSE /\ nresults' = [t \in SeqToSet(ntickers) |->
                               TickerEntry(t, g.values[LastIndexOf(t, ntickers)], nmax)]
            /\ \E ok \in SUBSET { t \in SeqToSet(ntickers) :
                                    \E a \in SeqToSet(nresults'[t]) : a.synthetic } :
                 ncache' = ncache \cup ok
            /\ npc' = "done"
            /\ UNCHANGED nraised
    /\ UNCHANGED <<ntickers, nmax, napi_key, nfetched>>

(***************************************************************************)
(* Sentiment: SentimentService.analyze_sentiment, _aggregate_sentiment,    *)
(* _classify_by_score and _create_neutral_summary.  Scores, ratios and     *)
(* confidences are integers in units of 0.0001.                            *)
(***************************************************************************)
sentVars == <<spc, stickers, snews, smodel, sloaded_by, sall_scores, sresults,
              sclassified, sresponse>>

\* 1.0 in units of 0.0001, the resolution of round(x, 4)
ScoreOne == 10000

\* SentimentService.BULLISH_THRESHOLD and BEARISH_THRESHOLD, in units of 0.0001
BULLISH_THRESHOLD == 1500
BEARISH_THRESHOLD == -1500

\* SentimentLabel
SentimentLabels == {"positive", "negative", "neutral"}

\* the confidences the classifier reports (the largest of three
\* probabilities), in units of 0.0001
Confidences == {3500, 6000, 7167}

\* the ticker lists and article titles of the calls; "" is an empty title
SentimentTickerLists == { <<"AAA">>, <<"AAA", "BBB">>, <<"BBB", "BBB">> }
TitleLists == { <<>>, <<"">>, <<"h1">>, <<"", "h1", "h2", "h3">> }
NewsByTicker ==
    UNION { [present -> TitleLists] : present \in SUBSET {"AAA", "BBB"} }

\* round(num / den, 4) in units of 0.0001: nearest, ties to even
RoundRatio(num, den) ==
    LET n == IF num < 0 THEN 0 - num ELSE num
        q == (n * ScoreOne) \div den
        r == (n * ScoreOne) % den
        m == IF 2 * r < den THEN q
             ELSE IF 2 * r > den THEN q + 1
             ELSE IF q % 2 = 0 THEN q ELSE q + 1
    IN  IF num < 0 THEN 0 - m ELSE m

\* _classify_by_score applied to the score num / den
classify_by_score(num, den) ==
    IF num * ScoreOne >= BULLISH_THRESHOLD * den THEN "positive"
    ELSE IF num * ScoreOne <= BEARISH_THRESHOLD * den THEN "negative"
    ELSE "neutral"

\* _create_neutral_summary
create_neutral_summary(ticker) ==
    [ticker |-> ticker, sentiment_score |-> 0, dominant_sentiment |-> "neutral",
     confidence_avg |-> 0, articles_analyzed |-> 0, positive_ratio |-> 0,
     negative_ratio |-> 0, neutral_ratio |-> ScoreOne, headlines |-> 0]

CountLabel(results, label) ==
    Cardinality({ i \in 1..Len(results) : results[i].label = label })

RECURSIVE SumConfidence(_, _)
SumConfidence(results, labels) ==
    IF results = <<>> THEN 0
    ELSE (IF Head(results).label \in labels THEN Head(results).confidence ELSE 0)
         + SumConfidence(Tail(results), labels)

\* _aggregate_sentiment: the label comes from the score before rounding
aggregate_sentiment(ticker, results) ==
    IF results = <<>> THEN create_neutral_summary(ticker)
    ELSE LET total == Len(results)
             total_confidence == SumConfidence(results, SentimentLabels)
             num == SumConfidence(results, {"positive"}) - SumConfidence(results, {"negative"})
             den == IF total_confidence > 0 THEN total_confidence ELSE 1
         IN  [ticker |-> ticker,
              sentiment_score |-> RoundRatio(num, den),
              dominant_sentiment |-> classify_by_score(num, den),
              confidence_avg |-> RoundRatio(total_confidence, total * ScoreOne),
              articles_analyzed |-> total,
              positive_ratio |-> RoundRatio(CountLabel(results, "positive"), total),
              negative_ratio |-> RoundRatio(CountLabel(results, "negative"), total),
              neutral_ratio |-> RoundRatio(CountLabel(results, "neutral"), total),
              headlines |-> total]

\* headlines = [article.title for article in articles if article.title]
RECURSIVE NonEmptyTitles(_)
NonEmptyTitles(titles) ==
    IF titles = <<>> THEN <<>>
    ELSE (IF Head(titles) # "" THEN <<Head(titles)>> ELSE <<>>) \o NonEmptyTitles(Tail(titles))

\* news_by_ticker.get(ticker, [])
ArticlesOf(news, ticker) == IF ticker \in DOMAIN news THEN news[ticker] ELSE <<>>

\* variant: an article list without usable titles still goes to the classifier
NeedsClassifierAlways(news, ticker) == TRUE

\* lines 113-125: the classifier is reached only with at least one headline
NeedsClassifier(news, ticker) == NonEmptyTitles(ArticlesOf(news, ticker)) # <<>>

RECURSIVE SumScores(_)
SumScores(scores) == IF scores = <<>> THEN 0 ELSE Head(scores) + SumScores(Tail(scores))

\* round(np.mean(all_scores), 4), 0.0 for an empty list
market_index(scores) ==
    IF scores = <<>> THEN 0 ELSE RoundRatio(SumScores(scores), Len(scores) * ScoreOne)

NoSummaries == [t \in {} |-> 0]
NoNews == [t \in {} |-> <<>>]
NoSentimentResponse == [code |-> "none", market_sentiment_index |-> 0]

SentimentInit ==
    /\ spc = "idle"
    /\ stickers = <<>>
    /\ snews = NoNews
    /\ smodel = FALSE
    /\ sloaded_by = FALSE
    /\ sall_scores = <<>>
    /\ sresults = NoSummaries
    /\ sclassified = {}
    /\ sresponse = NoSentimentResponse

SentimentIdle == SentimentInit

\* analyze_sentiment is called; the model is loaded already or not
AnalyzeRequest ==
    /\ spc = "idle"
    /\ stickers' \in SentimentTickerLists
    /\ snews' \in NewsByTicker
    /\ smodel' \in BOOLEAN
    /\ spc' = "initialize"
    /\ UNCHANGED <<sloaded_by, sall_scores, sresults, sclassified, sresponse>>

\* line 107: await self.initialize_model(), which returns at once when the
\* model is set
InitializeModelOk ==
    /\ spc = "initialize"
    /\ smodel' = TRUE
    /\ sloaded_by' = ~smodel
    /\ spc' = "loop"
    /\ UNCHANGED <<stickers, snews, sall_scores, sresults, sclassified, sresponse>>

\* the load fails: initialize_model raises SentimentAnalysisException
InitializeModelFails ==
    /\ spc = "initialize"
    /\ ~smodel
    /\ sresponse' = [code |-> "SENTIMENT_ERROR", market_sentiment_index |-> 0]
    /\ spc' = "raised"
    /\ UNCHANGED <<stickers, snews, smodel, sloaded_by, sall_scores, sresults, sclassified>>

\* lines 112-125: a ticker without articles, or without a non-empty title
NeutralTicker ==
    /\ spc = "loop"
    /\ Len(sall_scores) < Len(stickers)
    /\ LET ticker == stickers[Len(sall_scores) + 1] IN
       /\ ~NeedsClassifier(snews, ticker)
       /\ sresults' = [t \in DOMAIN sresults \cup {ticker} |->
                          IF t = ticker THEN create_neutral_summary(ticker) ELSE sresults[t]]
       /\ sall_scores' = Append(sall_scores, 0)
    /\ UNCHANGED <<spc, stickers, snews, smodel, sloaded_by, sclassified, sresponse>>

\* lines 127-133: the headlines are classified and aggregated
ClassifyTicker ==
    /\ spc = "loop"
    /\ Len(sall_scores) < Len(stickers)
    /\ LET ticker == stickers[Len(sall_scores) + 1]
           headlines == NonEmptyTitles(ArticlesOf(snews, ticker)) IN
       /\ NeedsClassifier(snews, ticker)
       /\ \E out \in [1..Len(headlines) -> [label : SentimentLabels, confidence : Confidences]] :
            LET summary == aggregate_sentiment(ticker, out) IN
            /\ sresults' = [t \in DOMAIN sresults \cup {ticker} |->
                               IF t = ticker THEN summary ELSE sresults[t]]
            /\ sall_scores' = Append(sall_scores, summary.sentiment_score)
       /\ sclassified' = sclassified \cup {Len(sall_scores) + 1}
    /\ UNCHANGED <<spc, stickers, snews, smodel, sloaded_by, sresponse>>

\* lines 135-145: the response with the market sentiment index
AnalyzeRespond ==
    /\ spc = "loop"
    /\ Len(sall_scores) = Len(stickers)
    /\ sresponse' = [code |-> "OK", market_sentiment_index |-> market_index(sall_scores)]
    /\ spc' = "done"
    /\ UNCHANGED <<stickers, snews, smodel, sloaded_by, sall_scores, sresults, sclassified>>

(***************************************************************************)
(* Value at risk: RiskService._calculate_var.  Simulated values are whole  *)
(* USD amounts; the amounts of the VaRResult are in cents, the resolution  *)
(* of round(x, 2).                                                         *)
(***************************************************************************)
varVars == <<rpc, rsimulated, rconfidence, rvar>>

\* number of simulated terminal values
MaxSimulations == 4

\* portfolio_value, in USD
PortfolioValue == 100

\* simulated terminal values, in USD
SimulatedValues == {80, 95, 100, 103, 120}

\* confidence_level * 100
ConfidenceLevels == {0, 90, 95, 100}

SimulatedArrays == UNION { [1..n -> SimulatedValues] : n \in 1..MaxSimulations }

\* losses = portfolio_value - simulated_values
Losses(portfolio_value, simulated) ==
    [i \in 1..Len(simulated) |-> portfolio_value - simulated[i]]

RECURSIVE InsertSmallestFirst(_, _)
InsertSmallestFirst(sorted, x) ==
    IF sorted = <<>> THEN <<x>>
    ELSE IF Head(sorted) <= x
         THEN <<Head(sorted)>> \o InsertSmallestFirst(Tail(sorted), x)
         ELSE <<x>> \o sorted

RECURSIVE SortSmallestFirst(_)
SortSmallestFirst(l) ==
    IF l = <<>> THEN <<>>
    ELSE InsertSmallestFirst(SortSmallestFirst(Tail(l)), Head(l))

\* np.percentile(losses, q), linear interpolation between the two nearest
\* order statistics, times 100 (that is, in cents)
PercentileCents(losses, q) ==
    LET sorted == SortSmallestFirst(losses)
        pos == (Len(losses) - 1) * q
        lo == (pos \div 100) + 1
        hi == IF lo < Len(losses) THEN lo + 1 ELSE lo
    IN  100 * sorted[lo] + (pos % 100) * (sorted[hi] - sorted[lo])

\* round(num / den, 2) of a USD amount, in cents: nearest, ties to even
RoundCents(num, den) ==
    LET n == IF num < 0 THEN 0 - num ELSE num
        q == (n * 100) \div den
        r == (n * 100) % den
        m == IF 2 * r < den THEN q
             ELSE IF 2 * r > den THEN q + 1
             ELSE IF q % 2 = 0 THEN q ELSE q + 1
    IN  IF num < 0 THEN 0 - m ELSE m

RECURSIVE SumLosses(_)
SumLosses(l) == IF l = <<>> THEN 0 ELSE Head(l) + SumLosses(Tail(l))

RECURSIVE SelectLosses(_, _, _)
SelectLosses(losses, var_cents, below) ==
    IF losses = <<>> THEN <<>>
    ELSE (IF (below /\ 100 * Head(losses) <= var_cents)
             \/ (~below /\ 100 * Head(losses) >= var_cents)
          THEN <<Head(losses)>> ELSE <<>>)
         \o SelectLosses(Tail(losses), var_cents, below)

\* variant: the tail is taken on the side of the small losses
TailLossesBelow(losses, var_cents) == SelectLosses(losses, var_cents, TRUE)

\* tail_losses = losses[losses >= var_amount]
TailLosses(losses, var_cents) == SelectLosses(losses, var_cents, FALSE)

\* _calculate_var: var_amount and expected_shortfall as returned
calculate_var(portfolio_value, q, simulated) ==
    LET losses == Losses(portfolio_value, simulated)
        var_cents == PercentileCents(losses, q)
        tail_losses == TailLosses(losses, var_cents)
    IN  [confidence_level |-> q,
         var_amount |-> var_cents,
         expected_shortfall |->
             IF Len(tail_losses) > 0
             THEN RoundCents(SumLosses(tail_losses), Len(tail_losses))
             ELSE var_cents,
         tail |-> Len(tail_losses)]

NoVaR == [confidence_level |-> 0, var_amount |-> 0, expected_shortfall |-> 0, tail |-> 0]

VarInit ==
    /\ rpc = "idle"
    /\ rsimulated = <<>>
    /\ rconfidence = 0
    /\ rvar = NoVaR

VarIdle == VarInit

\* _calculate_risk_metrics calls _calculate_var for one confidence level
VarRequest ==
    /\ rpc = "idle"
    /\ rsimulated' \in SimulatedArrays
    /\ rconfidence' \in ConfidenceLevels
    /\ rpc' = "calculate"
    /\ UNCHANGED rvar

\* _calculate_var returns the VaRResult
CalculateVar ==
    /\ rpc = "calculate"
    /\ rvar' = calculate_var(PortfolioValue, rconfidence, rsimulated)
    /\ rpc' = "done"
    /\ UNCHANGED <<rsimulated, rconfidence>>

(***************************************************************************)
(* Model loading: lifespan (startup preload), warmup_model and             *)
(* analyze_sentiment all call SentimentService.initialize_model on the     *)
(* one shared instance; _load_model_sync runs in the thread pool while     *)
(* the event loop goes on with the other coroutines.                       *)
(***************************************************************************)
modelVars == <<ldebug, lmodel, lpc, lrun, lloads>>

\* the request coroutines: POST /sentiment/warmup and two POST /sentiment/analyze
RequestCallers == {"warmup", "analyze_a", "analyze_b"}
AnalyzeCallers == {"analyze_a", "analyze_b"}
Callers == {"startup"} \cup RequestCallers

ModelInit ==
    /\ ldebug = FALSE
    /\ lmodel = FALSE
    /\ lpc = [c \in Callers |-> "idle"]
    /\ lrun = [c \in Callers |-> "none"]
    /\ lloads = 0

ModelIdle == ModelInit

\* lifespan starts: with DEBUG set the preload is skipped
StartupBegin ==
    /\ lpc["startup"] = "idle"
    /\ \E debug \in BOOLEAN :
         /\ ldebug' = debug
         /\ lpc' = [lpc EXCEPT !["startup"] = IF debug THEN "ready" ELSE "call"]
    /\ UNCHANGED <<lmodel, lrun, lloads>>

\* a request reaches initialize_model; requests are served after startup
RequestArrives(c) ==
    /\ c \in RequestCallers
    /\ lpc["startup"] = "ready"
    /\ lpc[c] = "idle"
    /\ lpc' = [lpc EXCEPT ![c] = "call"]
    /\ UNCHANGED <<ldebug, lmodel, lrun, lloads>>

\* initialize_model lines 64-65: the model is set, return
InitializeLoaded(c) ==
    /\ lpc[c] = "call"
    /\ lmodel
    /\ lpc' = [lpc EXCEPT ![c] = "returned"]
    /\ UNCHANGED <<ldebug, lmodel, lrun, lloads>>

\* initialize_model lines 69-74: the model is not set, _load_model_sync is
\* handed to the executor and the coroutine awaits it
InitializeStartsLoad(c) ==
    /\ lpc[c] = "call"
    /\ ~lmodel
    /\ lrun' = [lrun EXCEPT ![c] = "started"]
    /\ lloads' = lloads + 1
    /\ lpc' = [lpc EXCEPT ![c] = "awaiting"]
    /\ UNCHANGED <<ldebug, lmodel>>

\* _load_model_sync lines 85-88: tokenizer and model are assigned
LoadAssignsModel(c) ==
    /\ lrun[c] = "started"
    /\ lmodel' = TRUE
    /\ lrun' = [lrun EXCEPT ![c] = "assigned"]
    /\ UNCHANGED <<ldebug, lpc, lloads>>

\* from_pretrained raises: nothing was assigned to _model
LoadFailsBeforeAssign(c) ==
    /\ lrun[c] = "started"
    /\ lrun' = [lrun EXCEPT ![c] = "failed"]
    /\ UNCHANGED <<ldebug, lmodel, lpc, lloads>>

\* _load_model_sync lines 89-90: _model.to(device) and _model.eval()
LoadFinishes(c) ==
    /\ lrun[c] = "assigned"
    /\ lrun' = [lrun EXCEPT ![c] = "done"]
    /\ UNCHANGED <<ldebug, lmodel, lpc, lloads>>

\* _model.to(device) raises: _model stays assigned
LoadFailsAfterAssign(c) ==
    /\ lrun[c] = "assigned"
    /\ lrun' = [lrun EXCEPT ![c] = "failed"]
    /\ UNCHANGED <<ldebug, lmodel, lpc, lloads>>

\* initialize_model lines 75-81: the awaited run is over; a failure is
\* raised as SentimentAnalysisException
AwaitLoad(c) ==
    /\ lpc[c] = "awaiting"
    /\ lrun[c] \in {"done", "failed"}
    /\ lpc' = [lpc EXCEPT ![c] = IF lrun[c] = "done" THEN "returned" ELSE "raised"]
    /\ UNCHANGED <<ldebug, lmodel, lrun, lloads>>

\* lifespan lines 41-46: preload done or its failure swallowed, ready
StartupReady ==
    /\ lpc["startup"] \in {"returned", "raised"}
    /\ lpc' = [lpc EXCEPT !["startup"] = "ready"]
    /\ UNCHANGED <<ldebug, lmodel, lrun, lloads>>

\* analyze_sentiment goes on after initialize_model, or the request fails
\* with the sentiment error; the warmup task just ends
RequestEnds(c) ==
    /\ c \in RequestCallers
    /\ lpc[c] \in {"returned", "raised"}
    /\ lpc' = [lpc EXCEPT ![c] = IF lpc[c] = "returned" THEN "done" ELSE "failed"]
    /\ UNCHANGED <<ldebug, lmodel, lrun, lloads>>

(***************************************************************************)
(* Response cache: AsyncTTLChecker.__call__ (the wrapper) around an async  *)
(* operation, called by two coroutines.                                    *)
(***************************************************************************)
cacheVars == <<cclock, ccache, ctimestamps, ccall, cinvocations>>

\* invocations of the wrapped operation that are followed
MaxInvocations == 2

\* cache_response = AsyncTTLChecker(ttl_seconds=3600)
ttl_seconds == 3600

\* the times at which something happens, in seconds
ClockValues == {0, 1, 3600, 3601}

CacheCallers == {"a", "b"}

\* python values as the key computation tells them apart: a string, an
\* object (a service instance), a list, a dict (entries in insertion
\* order, keys unique) and a tuple; keyword arguments are entries too
Str(s) == [kind |-> "str", text |-> s, items |-> <<>>]
Obj(id) == [kind |-> "object", text |-> id, items |-> <<>>]
List(elements) == [kind |-> "list", text |-> "", items |-> elements]
Dict(entries) == [kind |-> "dict", text |-> "", items |-> entries]
Entry(k, v) == [kind |-> "entry", text |-> k, items |-> <<v>>]
Tuple(elements) == [kind |-> "tuple", text |-> "", items |-> elements]

\* the order of str values under <, for the strings that occur as keys
StrOrder == <<"AAA", "BBB", "tickers", "timeframe">>

StrRank(s) == CHOOSE i \in 1..Len(StrOrder) : StrOrder[i] = s

\* variant: the (key, value) pairs keep the order in which they were given
unsorted(pairs) == pairs

\* sorted(...) of (key, value) tuples whose keys are distinct strings
sorted(pairs) ==
    LET before(p) ==
            Cardinality({j \in 1..Len(pairs) :
                StrRank(pairs[j].items[1].text) < StrRank(p.items[1].text)})
    IN  [i \in 1..Len(pairs) |->
            pairs[CHOOSE j \in 1..Len(pairs) : before(pairs[j]) = i - 1]]

RECURSIVE make_hashable(_)
\* lines 8-14: lists become tuples, dicts become sorted tuples of
\* (key, value) tuples, anything else is kept
make_hashable(value) ==
    IF value.kind = "list"
    THEN Tuple([i \in 1..Len(value.items) |-> make_hashable(value.items[i])])
    ELSE IF value.kind = "dict"
    THEN Tuple(sorted([i \in 1..Len(value.items) |->
                Tuple(<<Str(value.items[i].text), make_hashable(value.items[i].items[1])>>)]))
    ELSE value

\* line 28: every python object has __class__, so the test is on args alone
start_index(args) == IF args # <<>> THEN 1 ELSE 0

\* line 29: args[start_index:]
clean_args(args) == SubSeq(args, start_index(args) + 1, Len(args))

\* lines 32-36: key = (func.__name__, key_args, key_kwargs)
CacheKey(func_name, call) ==
    [name |-> func_name,
     key_args |-> Tuple([i \in 1..Len(clean_args(call.args)) |->
                            make_hashable(clean_args(call.args)[i])]),
     key_kwargs |-> Tuple(sorted([i \in 1..Len(call.kwargs) |->
                Tuple(<<Str(call.kwargs[i].text), make_hashable(call.kwargs[i].items[1])>>)]))]

\* the calls of the cached method: positional arguments (the first one is
\* the instance) and keyword arguments
CacheCalls ==
    [args : {<<Obj("svc1"), List(<<Str("AAA")>>)>>, <<Obj("svc2"), List(<<Str("AAA")>>)>>,
             <<Obj("svc1"), List(<<Str("BBB")>>)>>},
     kwargs : {<<>>}]
    \cup [args : {<<Obj("svc1")>>}, kwargs : {<<Entry("tickers", List(<<Str("AAA")>>))>>}]

\* variant: an entry is still fresh at the age of exactly the TTL
IsFreshInclusive(now, timestamp, ttl) == now - timestamp <= ttl

\* line 43: now - timestamp < timedelta(seconds=self.ttl)
IsFresh(now, timestamp, ttl) == now - timestamp < ttl

\* lines 41-44: a hit
IsHit(key, now) ==
    key \in DOMAIN ccache /\ IsFresh(now, ctimestamps[key], ttl_seconds)

Store(table, key, value) ==
    [k \in DOMAIN table \cup {key} |-> IF k = key THEN value ELSE table[k]]

NoCall ==
    [pc |-> "idle", key |-> CacheKey("", [args |-> <<>>, kwargs |-> <<>>]), now |-> 0,
     found |-> FALSE, found_at |-> 0, hit |-> FALSE, invoked |-> 0, result |-> 0,
     call |-> [args |-> <<>>, kwargs |-> <<>>], finished |-> 0]

EmptyTable == [k \in {} |-> 0]

CacheInit ==
    /\ cclock = 0
    /\ ccache = EmptyTable
    /\ ctimestamps = EmptyTable
    /\ ccall = [c \in CacheCallers |-> NoCall]
    /\ cinvocations = 0

CacheIdle == CacheInit

\* time passes
Tick ==
    /\ \E t \in ClockValues : t > cclock /\ cclock' = t
    /\ UNCHANGED <<ccache, ctimestamps, ccall, cinvocations>>

\* wrapper lines 26-44: the key is built, now is read, and a fresh entry is
\* returned at once
WrapperHit(c) ==
    /\ ccall[c].pc = "idle"
    /\ \E call \in CacheCalls :
         LET key == CacheKey("operation", call) IN
         /\ IsHit(key, cclock)
         /\ ccall' = [ccall EXCEPT ![c] =
                [pc |-> "returned", key |-> key, now |-> cclock, found |-> TRUE,
                 found_at |-> ctimestamps[key], hit |-> TRUE, invoked |-> 0,
                 result |-> ccache[key], call |-> call,
                 finished |-> cclock]]
    /\ UNCHANGED <<cclock, ccache, ctimestamps, cinvocations>>

\* wrapper lines 26-47: no fresh entry, the wrapped operation is invoked
\* and awaited
WrapperMiss(c) ==
    /\ ccall[c].pc = "idle"
    /\ cinvocations < MaxInvocations
    /\ \E call \in CacheCalls :
         LET key == CacheKey("operation", call) IN
         /\ ~IsHit(key, cclock)
         /\ ccall' = [ccall EXCEPT ![c] =
                [pc |-> "awaiting", key |-> key, now |-> cclock,
                 found |-> key \in DOMAIN ccache,
                 found_at |-> IF key \in DOMAIN ccache THEN ctimestamps[key] ELSE 0,
                 hit |-> FALSE, invoked |-> 1, result |-> cinvocations + 1,
                 call |-> call, finished |-> 0]]
    /\ cinvocations' = cinvocations + 1
    /\ UNCHANGED <<cclock, ccache, ctimestamps>>

\* variant: the entry is stamped with the time the operation finished
StoredTimestampAtFinish(now, finished) == finished

\* line 49: the entry is stamped with now, read at line 38 before the await
StoredTimestamp(now, finished) == now

\* wrapper lines 47-50: the operation returned; result and now are stored
OperationReturns(c) ==
    /\ ccall[c].pc = "awaiting"
    /\ ccache' = Store(ccache, ccall[c].key, ccall[c].result)
    /\ ctimestamps' = Store(ctimestamps, ccall[c].key, StoredTimestamp(ccall[c].now, cclock))
    /\ ccall' = [ccall EXCEPT ![c].pc = "returned", ![c].finished = cclock]
    /\ UNCHANGED <<cclock, cinvocations>>

\* variant: a raising operation leaves a timestamp for its key
OperationRaisesAndStamps(c) ==
    /\ ccall[c].pc = "awaiting"
    /\ ccall' = [ccall EXCEPT ![c].pc = "raised"]
    /\ ctimestamps' = IF ccall[c].key \in DOMAIN ccache
                      THEN Store(ctimestamps, ccall[c].key, ccall[c].now)
                      ELSE ctimestamps
    /\ UNCHANGED <<cclock, ccache, cinvocations>>

\* the operation raised: the exception leaves the wrapper, nothing is stored
OperationRaises(c) ==
    /\ ccall[c].pc = "awaiting"
    /\ ccall' = [ccall EXCEPT ![c].pc = "raised"]
    /\ UNCHANGED <<cclock, ccache, ctimestamps, cinvocations>>

\* the caller is free for its next call
CallerContinues(c) ==
    /\ ccall[c].pc \in {"returned", "raised"}
    /\ ccall' = [ccall EXCEPT ![c] = NoCall]
    /\ UNCHANGED <<cclock, ccache, ctimestamps, cinvocations>>

(***************************************************************************)
(* Repeated calls of MarketDataService.get_market_data: the method is      *)
(* defined without the cache_response decorator of core/cache.py, so each  *)
(* call runs its body.                                                     *)
(***************************************************************************)
memoVars == <<gclock, gcalls, gdownloads>>

\* get_market_data calls that are followed
MaxMarketCalls == 3

\* the tickers and timeframes of the calls
MarketCallKeys ==
    [tickers : {<<"AAA", "BBB">>, <<"AAA", "CCC">>}, timeframe : {"1y", "3y"}]

\* the functions decorated with cache_response: none
CachedOperations == {}

MemoInit ==
    /\ gclock = 0
    /\ gcalls = <<>>
    /\ gdownloads = 0

MemoIdle == MemoInit

\* time passes between two calls
MarketClockTick ==
    /\ \E t \in ClockValues : t > gclock /\ gclock' = t
    /\ UNCHANGED <<gcalls, gdownloads>>

\* get_market_data(tickers, timeframe): a call that does not go through the
\* cache wrapper runs the body, which downloads the prices (line 67)
GetMarketDataCall ==
    /\ Len(gcalls) < MaxMarketCalls
    /\ "get_market_data" \notin CachedOperations
    /\ \E key \in MarketCallKeys :
         gcalls' = Append(gcalls, [key |-> key, at |-> gclock, downloaded |-> TRUE])
    /\ gdownloads' = gdownloads + 1
    /\ UNCHANGED gclock

(***************************************************************************)
(* The keys AsyncTTLChecker's wrapper builds for two calls of one          *)
(* decorated operation, a method (called with its instance first) or a     *)
(* plain function.                                                         *)
(***************************************************************************)
keyVars == <<kpc, kfunc, kcalls, kkeys>>

\* line 24: the operations the decorator is applied to
CachedFunctions ==
    {[name |-> "get_market_data", is_method |-> TRUE],
     [name |-> "fetch_quotes", is_method |-> FALSE]}

TickerListArgs ==
    {List(<<Str("AAA"), Str("BBB")>>), List(<<Str("BBB"), Str("AAA")>>)}

WeightDictArgs ==
    {Dict(<<Entry("AAA", Str("0.4")), Entry("BBB", Str("0.6"))>>),
     Dict(<<Entry("BBB", Str("0.6")), Entry("AAA", Str("0.4"))>>)}

\* the positional arguments after the instance, if there is one
PositionalArgs ==
    {<<>>, <<Str("AAA")>>, <<Str("BBB")>>}
    \cup {<<l>> : l \in TickerListArgs}
    \cup {<<d>> : d \in WeightDictArgs}
    \cup {<<Str("AAA"), l>> : l \in TickerListArgs}
    \cup {<<Str("BBB"), List(<<Str("AAA"), Str("BBB")>>)>>}

KeywordArgs ==
    {<<>>,
     <<Entry("tickers", List(<<Str("AAA"), Str("BBB")>>)), Entry("timeframe", Str("1y"))>>,
     <<Entry("timeframe", Str("1y")), Entry("tickers", List(<<Str("AAA"), Str("BBB")>>))>>,
     <<Entry("tickers", List(<<Str("BBB"), Str("AAA")>>)), Entry("timeframe", Str("1y"))>>}

\* wrapper(*args, **kwargs): a method call carries its instance first
CallsOf(func) ==
    IF func.is_method
    THEN [args : {<<Obj(r)>> \o p : r \in {"svc1", "svc2"}, p \in PositionalArgs},
          kwargs : KeywordArgs]
    ELSE [args : PositionalArgs, kwargs : KeywordArgs]

NoKeyCall == [args |-> <<>>, kwargs |-> <<>>]

KeyInit ==
    /\ kpc = "idle"
    /\ kfunc = [name |-> "", is_method |-> FALSE]
    /\ kcalls = <<NoKeyCall, NoKeyCall>>
    /\ kkeys = <<CacheKey("", NoKeyCall), CacheKey("", NoKeyCall)>>

KeyIdle == KeyInit

\* two calls of one decorated operation enter the wrapper
TwoCalls ==
    /\ kpc = "idle"
    /\ \E func \in CachedFunctions :
         \E c1, c2 \in CallsOf(func) :
            /\ kfunc' = func
            /\ kcalls' = <<c1, c2>>
    /\ kpc' = "called"
    /\ UNCHANGED kkeys

\* wrapper lines 28-36 for each of the two calls
BuildKeys ==
    /\ kpc = "called"
    /\ kkeys' = <<CacheKey(kfunc.name, kcalls[1]), CacheKey(kfunc.name, kcalls[2])>>
    /\ kpc' = "built"
    /\ UNCHANGED <<kfunc, kcalls>>

(***************************************************************************)
(* GET /risk/var/quick: the endpoint checks the lengths, rescales the      *)
(* weights when their sum is outside [0.99, 1.01], zips tickers and        *)
(* weights into a dict and calls RiskService.quick_var with it.            *)
(***************************************************************************)
quickVars == <<qpc, qtickers, qweights, qweights_dict, qstatus>>

\* most values of one query parameter
MaxQueryValues == 2

\* weights a client may send, in hundredths
QueryWeights == {-50, 0, 30, 50, 70, 100}

\* lines 145-146: List[...] = Query(..., min_length=1)
QueryLists(S) == SeqsUpTo(S, MaxQueryValues) \ {<<>>}

\* line 166: 0.99 <= total_weight <= 1.01, in hundredths
WithinTolerance(total_weight) == 99 <= total_weight /\ total_weight <= 101

\* w / total_weight in millionths, to the nearest millionth
Quotient(w, total_weight) ==
    LET neg == (w < 0) # (total_weight < 0)
        n == IF w < 0 THEN 0 - w ELSE w
        t == IF total_weight < 0 THEN 0 - total_weight ELSE total_weight
        m == (2 * n * WeightOne + t) \div (2 * t)
    IN  IF neg THEN 0 - m ELSE m

\* lines 165-167: the weights list after the normalisation step
RescaledWeights(weights) ==
    IF WithinTolerance(SumSeq(weights))
    THEN [i \in 1..Len(weights) |-> weights[i] * (WeightOne \div 100)]
    ELSE [i \in 1..Len(weights) |-> Quotient(weights[i], SumSeq(weights))]

\* line 169: dict(zip(tickers, weights)), a repeated ticker keeps its last
\* weight
ZipDict(tickers, weights) ==
    LET items == [i \in 1..Len(tickers) |-> <<tickers[i], weights[i]>>]
    IN  [k \in DictKeys(items) |-> DictGet(items, k)]

NoWeightsDict == [k \in {} |-> 0]

QuickInit ==
    /\ qpc = "idle"
    /\ qtickers = <<>>
    /\ qweights = <<>>
    /\ qweights_dict = NoWeightsDict
    /\ qstatus = 0

QuickIdle == QuickInit

\* a request whose query parameters passed validation reaches the handler
QuickVarRequest ==
    /\ qpc = "idle"
    /\ qtickers' \in QueryLists(RawTickerPool)
    /\ qweights' \in QueryLists(QueryWeights)
    /\ qpc' = "received"
    /\ UNCHANGED <<qweights_dict, qstatus>>

\* lines 155-159: lists of different lengths are answered 400
QuickVarRejectsLengths ==
    /\ qpc = "received"
    /\ Len(qtickers) # Len(qweights)
    /\ qpc' = "rejected"
    /\ qstatus' = 400
    /\ UNCHANGED <<qtickers, qweights, qweights_dict>>

\* lines 162-177: the weights are rescaled if needed, zipped with the
\* normalised tickers and handed to the service
QuickVarCallsService ==
    /\ qpc = "received"
    /\ Len(qtickers) = Len(qweights)
    /\ WithinTolerance(SumSeq(qweights)) \/ SumSeq(qweights) # 0
    /\ qweights_dict' = ZipDict(NormalizeList(qtickers), RescaledWeights(qweights))
    /\ qpc' = "called"
    /\ UNCHANGED <<qtickers, qweights, qstatus>>

\* line 167 with total_weight = 0: w / total_weight raises
\* ZeroDivisionError, which nothing in the handler catches
QuickVarDivisionFails ==
    /\ qpc = "received"
    /\ Len(qtickers) = Len(qweights)
    /\ ~WithinTolerance(SumSeq(qweights)) /\ SumSeq(qweights) = 0
    /\ qpc' = "failed"
    /\ qstatus' = GlobalHandlerStatus("NOT_A_DOMAIN_ERROR")
    /\ UNCHANGED <<qtickers, qweights, qweights_dict>>

(***************************************************************************)
(* POST /risk/analyze: RiskService.analyze_risk computes one VaRResult per *)
(* requested confidence level; the endpoint logs the second one and        *)
(* returns the result.                                                     *)
(***************************************************************************)
analyzeVars == <<analyze_pc, confidence_levels, var_results, analyze_status>>

\* most confidence levels of one request
MaxLevels == 3

\* schemas.py lines 316-319: any list of floats, by default the three levels
ConfidenceLevelLists == SeqsUpTo({90, 95, 99}, MaxLevels)

\* simulated_paths[:, -1] of the request, in USD
SimulatedFinalValues == <<80, 95, 103, 120>>

\* risk_service.py lines 314-323: one _calculate_var result per level, in
\* the order of the list
VarResultsFor(levels) ==
    [i \in 1..Len(levels) |-> calculate_var(PortfolioValue, levels[i], SimulatedFinalValues)]

AnalyzeInit ==
    /\ analyze_pc = "idle"
    /\ confidence_levels = <<>>
    /\ var_results = <<>>
    /\ analyze_status = 0

AnalyzeIdle == AnalyzeInit

\* a request that passed validation reaches the handler
AnalyzeRiskRequest ==
    /\ analyze_pc = "idle"
    /\ confidence_levels' \in ConfidenceLevelLists
    /\ analyze_pc' = "received"
    /\ UNCHANGED <<var_results, analyze_status>>

\* endpoint line 66, service lines 96-155: the analysis is computed
AnalyzeRiskComputes ==
    /\ analyze_pc = "received"
    /\ var_results' = VarResultsFor(confidence_levels)
    /\ analyze_pc' = "computed"
    /\ UNCHANGED <<confidence_levels, analyze_status>>

\* service lines 158-163 and endpoint lines 75-79: an error inside the
\* service (no market data, for instance) is answered 400
AnalyzeRiskServiceFails ==
    /\ analyze_pc = "received"
    /\ analyze_pc' = "failed"
    /\ analyze_status' = 400
    /\ UNCHANGED <<confidence_levels, var_results>>

\* endpoint lines 68-73: var_results[1] is logged and the result returned
AnalyzeRiskAnswers ==
    /\ analyze_pc = "computed"
    /\ Len(var_results) >= 2
    /\ analyze_pc' = "answered"
    /\ analyze_status' = 200
    /\ UNCHANGED <<confidence_levels, var_results>>

\* endpoint line 70 with fewer than two results: var_results[1] raises
\* IndexError, which is not a domain error and reaches the global handler
AnalyzeRiskIndexError ==
    /\ analyze_pc = "computed"
    /\ Len(var_results) < 2
    /\ analyze_pc' = "failed"
    /\ analyze_status' = GlobalHandlerStatus("NOT_A_DOMAIN_ERROR")
    /\ UNCHANGED <<confidence_levels, var_results>>

(***************************************************************************)
(* CompanyInfoExtractor.get_company_info within one NewsService instance:  *)
(* the preload runs one call per listed ticker in executor threads, then   *)
(* _fetch_all_sources and _get_fallback_news call it on the event loop.    *)
(***************************************************************************)
infoVars == <<itickers, ipc, iticker, icache, irequests>>

InfoTickers == {"AAA", "BBB"}

\* the two preload threads, the per-ticker fetch and the fallback generator
InfoCallers == {"preload_1", "preload_2", "fetch", "fallback"}

PreloadThreads == {"preload_1", "preload_2"}

\* lines 292-301 and 249-290: the preload threads start with the request
\* and run side by side; the fetch runs after the preload was awaited, the
\* fallback generation after the fetch
MayStart(c) ==
    CASE c \in PreloadThreads -> TRUE
      [] c = "fetch" -> \A p \in PreloadThreads : ipc[p] = "done"
      [] c = "fallback" -> ipc["fetch"] = "done"

\* the ticker a caller asks for
TickersOf(c) ==
    CASE c = "preload_1" -> {itickers[1]}
      [] c = "preload_2" -> {itickers[2]}
      [] OTHER -> {itickers[1], itickers[2]}

InfoInit ==
    /\ itickers = <<>>
    /\ ipc = [c \in InfoCallers |-> "idle"]
    /\ iticker = [c \in InfoCallers |-> ""]
    /\ icache = {}
    /\ irequests = [t \in InfoTickers |-> 0]

InfoIdle == InfoInit

\* get_news_for_tickers is called on a fresh NewsService with two tickers
InfoRequest ==
    /\ itickers = <<>>
    /\ itickers' \in [1..2 -> InfoTickers]
    /\ ipc' = [c \in InfoCallers |-> "waiting"]
    /\ UNCHANGED <<iticker, icache, irequests>>

\* lines 33-36: the ticker has an entry, which is returned
InfoCacheHit(c) ==
    /\ ipc[c] = "waiting" /\ MayStart(c)
    /\ \E t \in TickersOf(c) :
         /\ t \in icache
         /\ iticker' = [iticker EXCEPT ![c] = t]
    /\ ipc' = [ipc EXCEPT ![c] = "done"]
    /\ UNCHANGED <<itickers, icache, irequests>>

\* lines 33-38: the ticker has no entry
InfoCacheMiss(c) ==
    /\ ipc[c] = "waiting" /\ MayStart(c)
    /\ \E t \in TickersOf(c) :
         /\ t \notin icache
         /\ iticker' = [iticker EXCEPT ![c] = t]
    /\ ipc' = [ipc EXCEPT ![c] = "missed"]
    /\ UNCHANGED <<itickers, icache, irequests>>

\* lines 39-40: the provider is asked for the ticker's metadata
InfoProviderRequest(c) ==
    /\ ipc[c] = "missed"
    /\ irequests' = [irequests EXCEPT ![iticker[c]] = @ + 1]
    /\ ipc' = [ipc EXCEPT ![c] = "requested"]
    /\ UNCHANGED <<itickers, iticker, icache>>

\* lines 43-51: the metadata arrived and is cached
InfoProviderReturns(c) ==
    /\ ipc[c] = "requested"
    /\ icache' = icache \cup {iticker[c]}
    /\ ipc' = [ipc EXCEPT ![c] = "done"]
    /\ UNCHANGED <<itickers, iticker, irequests>>

\* lines 53-55: the lookup failed; the fallback info is returned and
\* nothing is cached
InfoProviderFails(c) ==
    /\ ipc[c] = "requested"
    /\ ipc' = [ipc EXCEPT ![c] = "done"]
    /\ UNCHANGED <<itickers, iticker, icache, irequests>>

vars == <<routeVars, schemaVars, marketVars, optVars, weightVars, newsVars, sentVars, varVars, modelVars, cacheVars, memoVars, keyVars, quickVars, analyzeVars, infoVars>>

\* what each subsystem leaves alone
RoutingFrame == UNCHANGED <<schemaVars, marketVars, optVars, weightVars, newsVars, sentVars, varVars, modelVars, cacheVars, memoVars, keyVars, quickVars, analyzeVars, infoVars>>
SchemaFrame == UNCHANGED <<routeVars, marketVars, optVars, weightVars, newsVars, sentVars, varVars, modelVars, cacheVars, memoVars, keyVars, quickVars, analyzeVars, infoVars>>
MarketFrame == UNCHANGED <<routeVars, schemaVars, optVars, weightVars, newsVars, sentVars, varVars, modelVars, cacheVars, memoVars, keyVars, quickVars, analyzeVars, infoVars>>
OptFrame == UNCHANGED <<routeVars, schemaVars, marketVars, weightVars, newsVars, sentVars, varVars, modelVars, cacheVars, memoVars, keyVars, quickVars, analyzeVars, infoVars>>
WeightsFrame == UNCHANGED <<routeVars, schemaVars, marketVars, optVars, newsVars, sentVars, varVars, modelVars, cacheVars, memoVars, keyVars, quickVars, analyzeVars, infoVars>>
NewsFrame == UNCHANGED <<routeVars, schemaVars, marketVars, optVars, weightVars, sentVars, varVars, modelVars, cacheVars, memoVars, keyVars, quickVars, analyzeVars, infoVars>>
SentimentFrame == UNCHANGED <<routeVars, schemaVars, marketVars, optVars, weightVars, newsVars, varVars, modelVars, cacheVars, memoVars, keyVars, quickVars, analyzeVars, infoVars>>
VarFrame == UNCHANGED <<routeVars, schemaVars, marketVars, optVars, weightVars, newsVars, sentVars, modelVars, cacheVars, memoVars, keyVars, quickVars, analyzeVars, infoVars>>
ModelFrame == UNCHANGED <<routeVars, schemaVars, marketVars, optVars, weightVars, newsVars, sentVars, varVars, cacheVars, memoVars, keyVars, quickVars, analyzeVars, infoVars>>
CacheFrame == UNCHANGED <<routeVars, schemaVars, marketVars, optVars, weightVars, newsVars, sentVars, varVars, modelVars, memoVars, keyVars, quickVars, analyzeVars, infoVars>>
MemoFrame == UNCHANGED <<routeVars, schemaVars, marketVars, optVars, weightVars, newsVars, sentVars, varVars, modelVars, cacheVars, keyVars, quickVars, analyzeVars, infoVars>>
KeyFrame == UNCHANGED <<routeVars, schemaVars, marketVars, optVars, weightVars, newsVars, sentVars, varVars, modelVars, cacheVars, memoVars, quickVars, analyzeVars, infoVars>>
QuickFrame == UNCHANGED <<routeVars, schemaVars, marketVars, optVars, weightVars, newsVars, sentVars, varVars, modelVars, cacheVars, memoVars, keyVars, analyzeVars, infoVars>>
AnalyzeFrame == UNCHANGED <<routeVars, schemaVars, marketVars, optVars, weightVars, newsVars, sentVars, varVars, modelVars, cacheVars, memoVars, keyVars, quickVars, infoVars>>
InfoFrame == UNCHANGED <<routeVars, schemaVars, marketVars, optVars, weightVars, newsVars, sentVars, varVars, modelVars, cacheVars, memoVars, keyVars, quickVars, analyzeVars>>

NextRouting ==
    \/ RouterIncludeMarketData /\ RoutingFrame
    \/ RouterIncludeSentiment /\ RoutingFrame
    \/ AppIncludeApiRouter /\ RoutingFrame
    \/ AppAddRootRoutes /\ RoutingFrame
    \/ ReceiveRequest /\ RoutingFrame
    \/ DispatchRequest /\ RoutingFrame

InitRouting == RouteStart /\ SchemaIdle /\ MarketIdle /\ OptIdle /\ WeightsIdle /\ NewsIdle /\ SentimentIdle /\ VarIdle /\ ModelIdle /\ CacheIdle /\ MemoIdle /\ KeyIdle /\ QuickIdle /\ AnalyzeIdle /\ InfoIdle

SpecRouting == InitRouting /\ [][NextRouting]_vars

\* C1: every route of the four endpoint groups is registered under the API
\* prefix: a request for it is dispatched to its handler.
C1_AllGroupRoutesDispatched ==
    (boot = "serving" /\ req # NoReq /\ resp # "pending") =>
        \A r \in GroupRoutes :
            (req.method = r.method /\ req.path = API_V1_PREFIX \o Concrete(r.path))
                => resp = r.endpoint

NextSchema ==
    \/ ValidateMarketDataRequest /\ SchemaFrame
    \/ ValidateOptimizationRequest /\ SchemaFrame
    \/ ValidateSentimentAnalysisRequest /\ SchemaFrame
    \/ ValidateRiskAnalysisRequest /\ SchemaFrame

InitSchema == SchemaInit /\ RouteIdle /\ MarketIdle /\ OptIdle /\ WeightsIdle /\ NewsIdle /\ SentimentIdle /\ VarIdle /\ ModelIdle /\ CacheIdle /\ MemoIdle /\ KeyIdle /\ QuickIdle /\ AnalyzeIdle /\ InfoIdle

SpecSchema == InitSchema /\ [][NextSchema]_vars

\* C2: RiskAnalysisRequest validation accepts a request only if (a) the
\* normalized key set of weights equals the normalized ticker set, (b) the
\* weights sum to a value in [0.99, 1.01] and (c) no weight is negative.
C2_RiskRequestAcceptedOnlyIfWeightsValid ==
    (vschema = "RiskAnalysisRequest" /\ vresult.ok) =>
        /\ DOMAIN vresult.weights = SeqToSet(NormalizeList(vraw.tickers))
        /\ PortfolioWeights_validate_weights(vresult.weights)

\* C3: for every request schema carrying a ticker list, the validated list
\* holds each ticker upper-cased and trimmed and holds no ticker twice.
C3_ValidatedTickersNormalizedAndUnique ==
    (vschema # "none" /\ vresult.ok) =>
        /\ SeqToSet(vresult.tickers) = SeqToSet(NormalizeList(vraw.tickers))
        /\ NoDuplicates(vresult.tickers)

NextMarket ==
    \/ MarketRequest /\ MarketFrame
    \/ DownloadPrices /\ MarketFrame
    \/ DownloadFails /\ MarketFrame
    \/ ValidateSufficiency /\ MarketFrame
    \/ ComputeStatistics /\ MarketFrame
    \/ ComputeFails /\ MarketFrame
    \/ MarketRespond /\ MarketFrame

InitMarket == MarketInit /\ RouteIdle /\ SchemaIdle /\ OptIdle /\ WeightsIdle /\ NewsIdle /\ SentimentIdle /\ VarIdle /\ ModelIdle /\ CacheIdle /\ MemoIdle /\ KeyIdle /\ QuickIdle /\ AnalyzeIdle /\ InfoIdle

SpecMarket == InitMarket /\ [][NextMarket]_vars

\* positions of the requested list holding a thin ticker: a column with
\* fewer than 245 non-missing observations
ThinPositions ==
    { i \in 1..Len(mtickers) :
        mtickers[i] \in mprices.columns /\ mprices.count[mtickers[i]] < 245 }

AbsentPositions == { i \in 1..Len(mtickers) : mtickers[i] \notin mprices.columns }

FirstThin == CHOOSE i \in ThinPositions : \A j \in ThinPositions : i <= j

Validated == mpc \in {"compute", "respond", "done"} /\ merror.code # "MARKET_DATA_ERROR"

\* C4: when a requested ticker is thin, get_market_data raises the
\* insufficient-data error naming the first thin ticker in request order,
\* with required_days = 245 and its available count, even when other
\* requested tickers are absent; only when no ticker is thin and one is
\* absent does it raise invalid-ticker, listing all absent tickers.
C4_FirstThinTickerWins ==
    (Validated /\ merror.code # "NOT_A_DOMAIN_ERROR") =>
        /\ ThinPositions # {} =>
             merror = [code |-> "INSUFFICIENT_DATA",
                       ticker |-> <<mtickers[FirstThin]>>,
                       required_days |-> 245,
                       available_days |-> mprices.count[mtickers[FirstThin]]]
        /\ (ThinPositions = {} /\ AbsentPositions # {}) =>
             /\ merror.code = "INVALID_TICKER"
             /\ SeqToSet(merror.ticker) = { mtickers[i] : i \in AbsentPositions }
             /\ Len(merror.ticker) = Cardinality(AbsentPositions)
        /\ (ThinPositions = {} /\ AbsentPositions = {}) => merror.code = "NONE"

\* C4 witness: the insufficient-data error was raised for a thin ticker
\* although an absent ticker stands before it in the request
C4_Witness ==
    /\ Validated
    /\ merror.code = "INSUFFICIENT_DATA"
    /\ \E i \in AbsentPositions : i < FirstThin

\* C5: a request ending in a domain error answers with the status of the
\* error kind (insufficient-data 422, invalid-ticker 400, provider error
\* 502) on every endpoint that calls get_market_data.
C5_StatusByErrorKind ==
    mpc = "done" =>
        /\ merror.code = "INSUFFICIENT_DATA" => mstatus = 422
        /\ merror.code = "INVALID_TICKER" => mstatus = 400
        /\ merror.code = "MARKET_DATA_ERROR" => mstatus = 502

NextOptimize ==
    \/ OptimizeRequest /\ OptFrame
    \/ FetchNews /\ OptFrame
    \/ FetchNewsFails /\ OptFrame
    \/ AnalyzeSentiment /\ OptFrame
    \/ AnalyzeSentimentFails /\ OptFrame
    \/ CallOptimizePortfolio /\ OptFrame
    \/ GetPrices /\ OptFrame
    \/ GetPricesFails /\ OptFrame
    \/ PrepareViews /\ OptFrame
    \/ Optimize /\ OptFrame
    \/ OptimizeFails /\ OptFrame
    \/ OptimizeRespond /\ OptFrame

InitOptimize == OptInit /\ RouteIdle /\ SchemaIdle /\ MarketIdle /\ WeightsIdle /\ NewsIdle /\ SentimentIdle /\ VarIdle /\ ModelIdle /\ CacheIdle /\ MemoIdle /\ KeyIdle /\ QuickIdle /\ AnalyzeIdle /\ InfoIdle

SpecOptimize == InitOptimize /\ [][NextOptimize]_vars

DomainCodes == { "INSUFFICIENT_DATA", "INVALID_TICKER", "MARKET_DATA_ERROR" }

\* C6: a failure leaving optimize_portfolio keeps its domain kind when it
\* already is a domain error; only other failures are wrapped into the
\* optimization-domain error carrying the requested tickers and objective.
C6_DomainErrorsKeepTheirKind ==
    ocause # "NONE" =>
        IF ocause \in DomainCodes
        THEN oerror.code = ocause
        ELSE oerror = [code |-> "OPTIMIZATION_ERROR", tickers |-> orequest.tickers,
                       objective |-> orequest.objective]

NoManualViews == orequest.views = None \/ orequest.views = Some(<<>>)

\* C7: with use_sentiment = false and no manual views, or with manual
\* views supplied whatever use_sentiment is, neither the news fetch nor
\* the sentiment analysis is invoked and the response has
\* sentiment_views_used = false.
C7_NoSentimentPipelineWithoutNeed ==
    (opc # "idle" /\ ((~orequest.use_sentiment /\ NoManualViews) \/ ~NoManualViews)) =>
        /\ onews_calls = 0
        /\ osent_calls = 0
        /\ oresponse.present => ~oresponse.sentiment_views_used

\* C7 witness: a request with use_sentiment = false and no manual views
\* was answered successfully
C7_Witness ==
    /\ opc = "done"
    /\ ostatus = 200
    /\ ~orequest.use_sentiment
    /\ orequest.views = None

\* C8: with use_sentiment = true and no manual views, a failure of the
\* news fetch or of the sentiment analysis is absorbed: the optimization
\* is still invoked, with no sentiment results, and the outcome of the
\* request is the outcome of that optimization.
C8_SentimentFailureAbsorbed ==
    (opc = "done" /\ orequest.use_sentiment /\ NoManualViews /\ osent_failed # "NONE") =>
        /\ osvc_called
        /\ osvc_arg = None
        /\ oerror.code = "NONE" => (ostatus = 200 /\ oresponse.present)
        /\ oerror.code # "NONE" => (ostatus = 400 /\ ~oresponse.present)

\* C8 witness: the model load failed inside analyze_sentiment and the
\* request was still answered with the optimization's result
C8_Witness ==
    /\ opc = "done"
    /\ osent_failed = "SENTIMENT_ERROR"
    /\ osent_calls = 1
    /\ ostatus = 200

Unrecognized(objective) ==
    objective \notin { "max_sharpe", "min_volatility", "efficient_return", "efficient_risk" }

\* C10: _optimize uses the max_sharpe solver exactly when the objective is
\* max_sharpe, is unrecognized, or is efficient_return / efficient_risk
\* with no target supplied; efficient_return with any supplied
\* target_return and efficient_risk with any supplied target_volatility,
\* the value 0 included, use their own solver.
C10_ObjectiveDispatch ==
    osolver # "none" =>
        /\ osolver = "max_sharpe" <=>
             \/ orequest.objective = "max_sharpe"
             \/ Unrecognized(orequest.objective)
             \/ orequest.objective = "efficient_return" /\ orequest.target_return = None
             \/ orequest.objective = "efficient_risk" /\ orequest.target_volatility = None
        /\ (orequest.objective = "efficient_return" /\ orequest.target_return # None)
             => osolver = "efficient_return"
        /\ (orequest.objective = "efficient_risk" /\ orequest.target_volatility # None)
             => osolver = "efficient_risk"

\* C30: in an OptimizationResponse, sentiment_views_used = true implies that
\* views derived from the sentiment results were applied: the views came
\* from the sentiment results, at least one matched a requested ticker,
\* and black_litterman_params is present.
C30_SentimentFlagMeansViewsApplied ==
    (oresponse.present /\ oresponse.sentiment_views_used) =>
        /\ oresponse.black_litterman_params
        /\ ~TruthyList(orequest.views)
        /\ prepare_views(orequest, osvc_arg) # {}

NextWeights ==
    \/ EnterOptimize /\ WeightsFrame
    \/ Solve /\ WeightsFrame
    \/ SolveFails /\ WeightsFrame
    \/ CleanWeights /\ WeightsFrame
    \/ BuildAllocations /\ WeightsFrame

InitWeights == WeightsInit /\ RouteIdle /\ SchemaIdle /\ MarketIdle /\ OptIdle /\ NewsIdle /\ SentimentIdle /\ VarIdle /\ ModelIdle /\ CacheIdle /\ MemoIdle /\ KeyIdle /\ QuickIdle /\ AnalyzeIdle /\ InfoIdle

SpecWeights == InitWeights /\ [][NextWeights]_vars

AllocatedTickers == { wallocations[i].ticker : i \in 1..Len(wallocations) }

\* the allocation list holds exactly the tickers whose returned weight is
\* above 0.001, each once, in non-increasing order of the allocation weight
AllocationListExact ==
    /\ AllocatedTickers = { t \in DOMAIN wweights : wweights[t] > 1000 }
    /\ Len(wallocations) = Cardinality(AllocatedTickers)
    /\ \A i \in 1..(Len(wallocations) - 1) : wallocations[i].weight >= wallocations[i + 1].weight

\* C9: after a successful optimize, every weight of the returned weights
\* map lies in [min_weight, max_weight], and the allocation list holds
\* exactly the tickers whose returned weight is above 0.001, in
\* non-increasing weight order.
C9_WeightsWithinBounds ==
    wpc = "done" =>
        /\ \A t \in DOMAIN wweights :
             wconstraints.min_weight <= wweights[t] /\ wweights[t] <= wconstraints.max_weight
        /\ AllocationListExact

NextNews ==
    \/ NewsRequest /\ NewsFrame
    \/ PreloadCompanyInfo /\ NewsFrame
    \/ FetchAllSources /\ NewsFrame
    \/ FetchAllSourcesRaises /\ NewsFrame
    \/ AssembleNews /\ NewsFrame

InitNews == NewsInit /\ RouteIdle /\ SchemaIdle /\ MarketIdle /\ OptIdle /\ WeightsIdle /\ SentimentIdle /\ VarIdle /\ ModelIdle /\ CacheIdle /\ MemoIdle /\ KeyIdle /\ QuickIdle /\ AnalyzeIdle /\ InfoIdle

SpecNews == InitNews /\ [][NextNews]_vars

NewsFinished == npc \in {"done", "raised"}

AllSynthetic(articles) == \A i \in 1..Len(articles) : articles[i].synthetic

\* C11: get_news_for_tickers never raises; whatever fails, the returned map
\* has one entry for every requested ticker, and a ticker whose fetch
\* pipeline raised gets a list of synthetic articles only.
C11_NewsNeverRaises ==
    NewsFinished =>
        /\ ~nraised
        /\ DOMAIN nresults = SeqToSet(ntickers)
        /\ \A t \in SeqToSet(ntickers) :
             nfetched[LastIndexOf(t, ntickers)].exc =>
                 Len(nresults[t]) > 0 /\ AllSynthetic(nresults[t])

\* C11 witness: one ticker's pipeline raised while the other ticker came
\* back with real articles
C11_Witness ==
    /\ npc = "done"
    /\ \E i, j \in 1..Len(ntickers) :
         /\ nfetched[i].exc
         /\ ~nfetched[j].exc
         /\ Len(nfetched[j].articles) > 0
         /\ ntickers[i] # ntickers[j]

NonIncreasingPublishTime(articles) ==
    \A i \in 1..(Len(articles) - 1) : articles[i].published_at >= articles[i + 1].published_at

\* C12: every returned article list is in non-increasing order of publish
\* time, the lists with synthetic filler articles included.
C12_ListsNewestFirst ==
    npc = "done" => \A t \in DOMAIN nresults : NonIncreasingPublishTime(nresults[t])

SyntheticCount(articles) ==
    Cardinality({ i \in 1..Len(articles) : articles[i].synthetic })

Min(a, b) == IF a < b THEN a ELSE b

\* C13: a ticker with n < 10 real articles gets its real articles followed
\* by filler up to the floor of 10, truncated to max_articles_per_ticker, so
\* its list has length min(10, max_articles_per_ticker); a ticker with
\* n >= 10 real articles gets no synthetic article.
C13_FillerMeetsTheFloorExactly ==
    npc = "done" =>
        \A t \in DOMAIN nresults :
            LET r == nfetched[LastIndexOf(t, ntickers)] IN
            ~r.exc =>
                IF Len(r.articles) < 10
                THEN Len(nresults[t]) = Min(10, nmax)
                ELSE SyntheticCount(nresults[t]) = 0

NextSentiment ==
    \/ AnalyzeRequest /\ SentimentFrame
    \/ InitializeModelOk /\ SentimentFrame
    \/ InitializeModelFails /\ SentimentFrame
    \/ NeutralTicker /\ SentimentFrame
    \/ ClassifyTicker /\ SentimentFrame
    \/ AnalyzeRespond /\ SentimentFrame

InitSentiment == SentimentInit /\ RouteIdle /\ SchemaIdle /\ MarketIdle /\ OptIdle /\ WeightsIdle /\ NewsIdle /\ VarIdle /\ ModelIdle /\ CacheIdle /\ MemoIdle /\ KeyIdle /\ QuickIdle /\ AnalyzeIdle /\ InfoIdle

SpecSentiment == InitSentiment /\ [][NextSentiment]_vars

\* the ticker at position i has no article, or no non-empty title
WithoutHeadline(i) ==
    \A j \in 1..Len(ArticlesOf(snews, stickers[i])) : ArticlesOf(snews, stickers[i])[j] = ""

\* C14: the model is loaded before anything is classified; the result map
\* has exactly one summary per requested ticker; a ticker with no articles
\* or no non-empty title gets the neutral summary, the classifier is not
\* invoked for it, and it adds 0 to the scores behind the market index.
C14_NeutralSummaryWithoutClassifier ==
    /\ sclassified # {} => smodel
    /\ \A i \in 1..Len(sall_scores) :
         WithoutHeadline(i) =>
             /\ i \notin sclassified
             /\ sall_scores[i] = 0
             /\ sresults[stickers[i]].sentiment_score = 0
             /\ sresults[stickers[i]].dominant_sentiment = "neutral"
             /\ sresults[stickers[i]].articles_analyzed = 0
             /\ sresults[stickers[i]].neutral_ratio = 10000
             /\ sresults[stickers[i]].headlines = 0
    /\ spc = "done" =>
         /\ DOMAIN sresults = SeqToSet(stickers)
         /\ \A t \in DOMAIN sresults : sresults[t].ticker = t

\* C14 witness: the call loaded the model, one ticker had only an article
\* with an empty title and the other one was classified
C14_Witness ==
    /\ spc = "done"
    /\ sloaded_by
    /\ \E i, j \in 1..Len(stickers) :
         /\ WithoutHeadline(i)
         /\ ArticlesOf(snews, stickers[i]) # <<>>
         /\ j \in sclassified
         /\ sresults[stickers[j]].sentiment_score # 0

\* C15: in every summary the reported sentiment_score lies in [-1, 1] and
\* the dominant label follows from the reported score alone: positive iff
\* score >= 0.15, negative iff score <= -0.15, neutral otherwise.
C15_LabelFollowsReportedScore ==
    \A t \in DOMAIN sresults :
        LET s == sresults[t] IN
        /\ -10000 <= s.sentiment_score /\ s.sentiment_score <= 10000
        /\ s.dominant_sentiment = "positive" <=> s.sentiment_score >= 1500
        /\ s.dominant_sentiment = "negative" <=> s.sentiment_score <= -1500

NextVar ==
    \/ VarRequest /\ VarFrame
    \/ CalculateVar /\ VarFrame

InitVar == VarInit /\ RouteIdle /\ SchemaIdle /\ MarketIdle /\ OptIdle /\ WeightsIdle /\ NewsIdle /\ SentimentIdle /\ ModelIdle /\ CacheIdle /\ MemoIdle /\ KeyIdle /\ QuickIdle /\ AnalyzeIdle /\ InfoIdle

SpecVar == InitVar /\ [][NextVar]_vars

\* C16: for every confidence level and every array of simulated terminal
\* values, the Expected Shortfall amount returned by _calculate_var is
\* greater than or equal to the VaR amount returned with it.
C16_ExpectedShortfallAtLeastVaR ==
    rpc = "done" => rvar.expected_shortfall >= rvar.var_amount

\* C16 witness: a result whose shortfall is the mean of several tail
\* losses and strictly exceeds a positive VaR
C16_Witness ==
    /\ rpc = "done"
    /\ rvar.tail >= 2
    /\ rvar.var_amount > 0
    /\ rvar.expected_shortfall > rvar.var_amount

NextModel ==
    \/ StartupBegin /\ ModelFrame
    \/ StartupReady /\ ModelFrame
    \/ \E c \in Callers :
         \/ RequestArrives(c) /\ ModelFrame
         \/ InitializeLoaded(c) /\ ModelFrame
         \/ InitializeStartsLoad(c) /\ ModelFrame
         \/ LoadAssignsModel(c) /\ ModelFrame
         \/ LoadFailsBeforeAssign(c) /\ ModelFrame
         \/ LoadFinishes(c) /\ ModelFrame
         \/ LoadFailsAfterAssign(c) /\ ModelFrame
         \/ AwaitLoad(c) /\ ModelFrame
         \/ RequestEnds(c) /\ ModelFrame

InitModel == ModelInit /\ RouteIdle /\ SchemaIdle /\ MarketIdle /\ OptIdle /\ WeightsIdle /\ NewsIdle /\ SentimentIdle /\ VarIdle /\ CacheIdle /\ MemoIdle /\ KeyIdle /\ QuickIdle /\ AnalyzeIdle /\ InfoIdle

SpecModel == InitModel /\ [][NextModel]_vars

\* every step that is enabled is eventually taken: the event loop and the
\* thread pool keep running
SpecModelFair == SpecModel /\ WF_vars(NextModel)

\* C17: over any interleaving of the startup preload, warmup and analyze
\* requests, _load_model_sync is started at most once, and an
\* initialize_model call made while the model is loaded does not load.
C17_ModelLoadedAtMostOnce ==
    /\ lloads <= 1
    /\ \A c \in Callers : (lpc[c] = "call" /\ lmodel) => lrun[c] = "none"

StartupIsReady == lpc["startup"] = "ready"

\* C18: startup always reaches the ready state; with the debug flag no load
\* is attempted at startup; without it one load is attempted, and a failed
\* preload leaves the model not loaded, so the first later analyze call
\* attempts the load again; an analyze request fails with the sentiment
\* error only if its own load failed.
C18_StartupReadyAndFailedPreloadRetried ==
    /\ <>StartupIsReady
    /\ [](StartupIsReady /\ ldebug => lrun["startup"] = "none")
    /\ [](StartupIsReady /\ ~ldebug => lrun["startup"] \in {"done", "failed"})
    /\ [](StartupIsReady /\ lrun["startup"] = "failed" /\ lloads = 1 => ~lmodel)
    /\ [](\A c \in AnalyzeCallers : lpc[c] \in {"raised", "failed"} => lrun[c] = "failed")

\* C26: whenever a request can observe the model as loaded (startup is
\* over and _model is not None, as initialize_model and the health endpoint
\* test it), a load routine has finished moving it to the device and
\* putting it in evaluation mode, and no load routine is still at work.
C26_LoadedModelIsFinished ==
    (StartupIsReady /\ lmodel) =>
        /\ \E c \in Callers : lrun[c] = "done"
        /\ \A c \in Callers : lrun[c] \notin {"started", "assigned"}

NextCache ==
    \/ Tick /\ CacheFrame
    \/ \E c \in CacheCallers :
         \/ WrapperHit(c) /\ CacheFrame
         \/ WrapperMiss(c) /\ CacheFrame
         \/ OperationReturns(c) /\ CacheFrame
         \/ OperationRaises(c) /\ CacheFrame
         \/ CallerContinues(c) /\ CacheFrame

InitCache == CacheInit /\ RouteIdle /\ SchemaIdle /\ MarketIdle /\ OptIdle /\ WeightsIdle /\ NewsIdle /\ SentimentIdle /\ VarIdle /\ ModelIdle /\ MemoIdle /\ KeyIdle /\ QuickIdle /\ AnalyzeIdle /\ InfoIdle

SpecCache == InitCache /\ [][NextCache]_vars

\* a wrapper call that is past its cache check
PastCheck(c) == ccall[c].pc # "idle"

\* C20: a wrapper call returns the stored value without invoking the
\* wrapped operation iff an entry for its key exists whose age is strictly
\* below the TTL; otherwise the operation is invoked once, and when it
\* returns the stored value and the stored timestamp of the key are both
\* replaced before the call returns.
C20_HitIffFreshElseInvokeAndStore ==
    /\ [](\A c \in CacheCallers :
            PastCheck(c) =>
                /\ ccall[c].hit <=> (ccall[c].found /\ ccall[c].now - ccall[c].found_at < 3600)
                /\ ccall[c].hit => ccall[c].invoked = 0
                /\ ~ccall[c].hit => ccall[c].invoked = 1)
    /\ [][\A c \in CacheCallers :
            /\ (ccall[c].pc = "idle" /\ ccall'[c].pc = "returned") =>
                   /\ ccall'[c].result = ccache[ccall'[c].key]
                   /\ UNCHANGED <<ccache, ctimestamps, cinvocations>>
            /\ (ccall[c].pc = "awaiting" /\ ccall'[c].pc = "returned") =>
                   /\ ccache'[ccall[c].key] = ccall'[c].result
                   /\ ctimestamps'[ccall[c].key] = ccall[c].now
            /\ (ccall[c].pc = "idle" /\ ccall'[c].pc = "awaiting") =>
                   cinvocations' = cinvocations + 1]_vars

\* C20 witness: a call found an entry aged exactly the TTL, invoked the
\* operation again and replaced value and timestamp
C20_Witness ==
    \E c \in CacheCallers :
        /\ ccall[c].pc = "returned"
        /\ ccall[c].found
        /\ ccall[c].now - ccall[c].found_at = 3600
        /\ ~ccall[c].hit
        /\ ccache[ccall[c].key] = ccall[c].result
        /\ ctimestamps[ccall[c].key] = ccall[c].now

\* C22: two tasks that call the cached operation with the same key while
\* no fresh entry exists never both invoke the wrapped operation: at no
\* time are two invocations for one key in flight.
C22_OneInvocationPerKey ==
    \A c1, c2 \in CacheCallers :
        (c1 # c2 /\ ccall[c1].pc = "awaiting" /\ ccall[c2].pc = "awaiting")
            => ccall[c1].key # ccall[c2].key

\* C28: when the wrapped operation raises, the caller gets the exception
\* and the cache and the timestamps are left as they were, so a lookup of
\* the key is answered after the raise as it was before it.
C28_RaiseLeavesCacheUntouched ==
    [][\A c \in CacheCallers :
        (ccall[c].pc = "awaiting" /\ ccall'[c].pc # "awaiting") =>
            \/ ccall'[c].pc = "returned"
            \/ /\ ccall'[c].pc = "raised"
               /\ ccache' = ccache
               /\ ctimestamps' = ctimestamps
               /\ IsHit(ccall[c].key, cclock)' = IsHit(ccall[c].key, cclock)]_vars

\* C28 witness: a call that found a stale entry and whose operation raised;
\* the entry is still there, with its old timestamp, and still stale
C28_Witness ==
    \E c \in CacheCallers :
        /\ ccall[c].pc = "raised"
        /\ ccall[c].found
        /\ ccall[c].key \in DOMAIN ccache
        /\ ctimestamps[ccall[c].key] = ccall[c].found_at
        /\ ~IsHit(ccall[c].key, cclock)

\* C29: the key does not depend on the instance a call is made on, a
\* fresh entry is returned whichever instance stored it, and an entry is
\* stamped with the time its producing call started.
C29_SharedTableStampedAtCallStart ==
    /\ [](\A c1, c2 \in CacheCallers :
            (/\ PastCheck(c1) /\ PastCheck(c2)
             /\ Tail(ccall[c1].call.args) = Tail(ccall[c2].call.args)
             /\ ccall[c1].call.kwargs = ccall[c2].call.kwargs)
                => ccall[c1].key = ccall[c2].key)
    /\ [][\A c \in CacheCallers :
            /\ (ccall[c].pc = "awaiting" /\ ccall'[c].pc = "returned") =>
                   ctimestamps'[ccall[c].key] = ccall[c].now
            /\ (ccall[c].pc = "idle" /\ ccall'[c].pc = "returned") =>
                   /\ ccall'[c].key \in DOMAIN ccache
                   /\ ccall'[c].result = ccache[ccall'[c].key]
                   /\ cclock - ctimestamps[ccall'[c].key] < ttl_seconds]_vars

\* C29 witness: a call on one instance started at one time and stored its
\* result at a later time; a call with the same arguments on the other
\* instance got that result, from an entry stamped with the earlier time
C29_Witness ==
    \E c1, c2 \in CacheCallers :
        /\ ccall[c1].pc = "returned" /\ ~ccall[c1].hit
        /\ ccall[c1].finished > ccall[c1].now
        /\ ccall[c2].pc = "returned" /\ ccall[c2].hit
        /\ ccall[c1].call.args[1] # ccall[c2].call.args[1]
        /\ ccall[c2].key = ccall[c1].key
        /\ ccall[c2].result = ccall[c1].result
        /\ ccall[c2].found_at = ccall[c1].now
        /\ ccall[c2].now >= ccall[c1].finished

NextMemo ==
    \/ MarketClockTick /\ MemoFrame
    \/ GetMarketDataCall /\ MemoFrame

InitMemo == MemoInit /\ RouteIdle /\ SchemaIdle /\ MarketIdle /\ OptIdle /\ WeightsIdle /\ NewsIdle /\ SentimentIdle /\ VarIdle /\ ModelIdle /\ CacheIdle /\ KeyIdle /\ QuickIdle /\ AnalyzeIdle /\ InfoIdle

SpecMemo == InitMemo /\ [][NextMemo]_vars

\* C19: of two get_market_data calls with the same tickers and timeframe,
\* the second made less than the TTL (3600 s) after the first, only the
\* first downloads prices.
C19_MarketDataMemoized ==
    \A i, j \in 1..Len(gcalls) :
        (i < j /\ gcalls[i].key = gcalls[j].key /\ gcalls[j].at - gcalls[i].at < ttl_seconds)
            => ~gcalls[j].downloaded

NextKey ==
    \/ TwoCalls /\ KeyFrame
    \/ BuildKeys /\ KeyFrame

InitKey == KeyInit /\ RouteIdle /\ SchemaIdle /\ MarketIdle /\ OptIdle /\ WeightsIdle /\ NewsIdle /\ SentimentIdle /\ VarIdle /\ ModelIdle /\ CacheIdle /\ MemoIdle /\ QuickIdle /\ AnalyzeIdle /\ InfoIdle

SpecKey == InitKey /\ [][NextKey]_vars

RECURSIVE SameValue(_, _)
\* python's == on the argument values: lists compare in order, dicts
\* compare as sets of entries
SameValue(v, w) ==
    /\ v.kind = w.kind
    /\ v.text = w.text
    /\ Len(v.items) = Len(w.items)
    /\ IF v.kind = "dict"
       THEN \A i \in 1..Len(v.items) : \E j \in 1..Len(w.items) :
                SameValue(v.items[i], w.items[j])
       ELSE \A i \in 1..Len(v.items) : SameValue(v.items[i], w.items[i])

\* the arguments that enter the key are equal, dictionary arguments and
\* keyword arguments up to the order of their entries
EqualUpToEntryOrder(c1, c2) ==
    /\ Len(clean_args(c1.args)) = Len(clean_args(c2.args))
    /\ \A i \in 1..Len(clean_args(c1.args)) :
            SameValue(clean_args(c1.args)[i], clean_args(c2.args)[i])
    /\ SameValue(Dict(c1.kwargs), Dict(c2.kwargs))

\* two lists of the same elements in a different order
ReorderedList(v, w) ==
    /\ v.kind = "list" /\ w.kind = "list"
    /\ Len(v.items) = Len(w.items)
    /\ {v.items[i] : i \in 1..Len(v.items)} = {w.items[i] : i \in 1..Len(w.items)}
    /\ \E i \in 1..Len(v.items) : ~SameValue(v.items[i], w.items[i])

\* some list argument that enters the key is reordered between the calls
SomeListReordered(c1, c2) ==
    \/ \E i \in 1..Len(clean_args(c1.args)) :
            /\ i <= Len(clean_args(c2.args))
            /\ ReorderedList(clean_args(c1.args)[i], clean_args(c2.args)[i])
    \/ \E i \in 1..Len(c1.kwargs) : \E j \in 1..Len(c2.kwargs) :
            /\ c1.kwargs[i].text = c2.kwargs[j].text
            /\ ReorderedList(c1.kwargs[i].items[1], c2.kwargs[j].items[1])

DifferOnlyInFirstPositional(c1, c2) ==
    /\ c1.args # <<>> /\ c2.args # <<>>
    /\ c1.args[1] # c2.args[1]
    /\ Tail(c1.args) = Tail(c2.args)
    /\ c1.kwargs = c2.kwargs

\* C24: for a cached plain function, two calls that differ only in their
\* first positional argument get different keys.
C24_PlainFunctionKeepsFirstArgument ==
    (kpc = "built" /\ ~kfunc.is_method
        /\ DifferOnlyInFirstPositional(kcalls[1], kcalls[2]))
            => kkeys[1] # kkeys[2]

NextQuick ==
    \/ QuickVarRequest /\ QuickFrame
    \/ QuickVarRejectsLengths /\ QuickFrame
    \/ QuickVarCallsService /\ QuickFrame
    \/ QuickVarDivisionFails /\ QuickFrame

InitQuick == QuickInit /\ RouteIdle /\ SchemaIdle /\ MarketIdle /\ OptIdle /\ WeightsIdle /\ NewsIdle /\ SentimentIdle /\ VarIdle /\ ModelIdle /\ CacheIdle /\ MemoIdle /\ KeyIdle /\ AnalyzeIdle /\ InfoIdle

SpecQuick == InitQuick /\ [][NextQuick]_vars

\* C21: a quick-VaR request with tickers and weights of equal length does
\* not fail on account of the weight sum, and the weight map handed to
\* quick_var sums to a value within [0.99, 1.01].
C21_QuickVarWeightsSumToOne ==
    (qpc \in {"called", "failed"}) =>
        /\ qpc = "called"
        /\ 990000 <= SumDict(qweights_dict, DOMAIN qweights_dict)
        /\ SumDict(qweights_dict, DOMAIN qweights_dict) <= 1010000

NextAnalyze ==
    \/ AnalyzeRiskRequest /\ AnalyzeFrame
    \/ AnalyzeRiskComputes /\ AnalyzeFrame
    \/ AnalyzeRiskServiceFails /\ AnalyzeFrame
    \/ AnalyzeRiskAnswers /\ AnalyzeFrame
    \/ AnalyzeRiskIndexError /\ AnalyzeFrame

InitAnalyze == AnalyzeInit /\ RouteIdle /\ SchemaIdle /\ MarketIdle /\ OptIdle /\ WeightsIdle /\ NewsIdle /\ SentimentIdle /\ VarIdle /\ ModelIdle /\ CacheIdle /\ MemoIdle /\ KeyIdle /\ QuickIdle /\ InfoIdle

SpecAnalyze == InitAnalyze /\ [][NextAnalyze]_vars

\* C27: a risk analysis that the service computed for k >= 1 confidence
\* levels is answered successfully with exactly k VaR results, one per
\* requested level and in request order.
C27_OneVarResultPerLevel ==
    (analyze_status # 0 /\ Len(confidence_levels) >= 1 /\ var_results # <<>>) =>
        /\ analyze_status = 200
        /\ Len(var_results) = Len(confidence_levels)
        /\ \A i \in 1..Len(var_results) :
                var_results[i].confidence_level = confidence_levels[i]

NextInfo ==
    \/ InfoRequest /\ InfoFrame
    \/ \E c \in InfoCallers : InfoCacheHit(c) /\ InfoFrame
    \/ \E c \in InfoCallers : InfoCacheMiss(c) /\ InfoFrame
    \/ \E c \in InfoCallers : InfoProviderRequest(c) /\ InfoFrame
    \/ \E c \in InfoCallers : InfoProviderReturns(c) /\ InfoFrame
    \/ \E c \in InfoCallers : InfoProviderFails(c) /\ InfoFrame

InitInfo == InfoInit /\ RouteIdle /\ SchemaIdle /\ MarketIdle /\ OptIdle /\ WeightsIdle /\ NewsIdle /\ SentimentIdle /\ VarIdle /\ ModelIdle /\ CacheIdle /\ MemoIdle /\ KeyIdle /\ QuickIdle /\ AnalyzeIdle

SpecInfo == InitInfo /\ [][NextInfo]_vars

\* C25: within one NewsService instance the provider is asked for the
\* metadata of a given ticker at most once.
C25_ProviderAskedOncePerTicker ==
    \A t \in InfoTickers : irequests[t] <= 1

====
